---- MODULE Spec2Model ----
(***************************************************************************)
(* CodeGate: contract-driven evaluation engine.                            *)
(*                                                                         *)
(* Two state machines over one set of variables:                           *)
(*   Spec        - one `codegate run <contract>` invocation: cli.py        *)
(*                 run_contract -> ContractParser.parse ->                 *)
(*                 EvaluationRunner.run (_prepare_environment, _run_rule   *)
(*                 per enabled rule, EvaluationResult.to_dict) -> exit.    *)
(*   SpecAdapter - one DockerRunner instance whose methods are called in   *)
(*                 any order by a client, against a docker daemon.         *)
(*                                                                         *)
(* Strings built by f-strings are modelled as sequences of tokens, so that *)
(* "the message contains X" is a contiguous-subsequence test.              *)
(***************************************************************************)
EXTENDS Integers, Sequences, FiniteSets, TLC

\* ------------------------------------------------------------------ bounds
MaxRules == 2      \* rules declared in one contract
MaxCalls == 2      \* adapter method calls in SpecAdapter
MaxFiles == 2      \* python files in the project given to the policy rule
MaxNodes == 2      \* import and call nodes in the project's files
MaxRuns == 2       \* runs that build against the same image store

\* --------------------------------------------------------------- constants
WORKSPACE_PATH == "/workspace"
DEPS_IMAGE_PREFIX == "codegate-deps"

\* Python's None for image references (image tags are non-empty sequences).
None == <<>>

\* ----------------------------------------------------------- string helpers
\* pat occurs in msg as a contiguous run of tokens (Python's `pat in msg`).
Contains(msg, pat) ==
    \E k \in 0..(Len(msg) - Len(pat)) : SubSeq(msg, k + 1, k + Len(pat)) = pat

\* Package names of the model, listed in Python's string order.
PackageOrder == <<"flask", "git", "requests">>

Rank(p) == CHOOSE k \in 1..Len(PackageOrder) : PackageOrder[k] = p

\* sorted(list) on package names.
sorted(list) == SortSeq(list, LAMBDA a, b : Rank(a) < Rank(b))

\* sep.join(list), one token per element and per separator.
RECURSIVE join(_, _)
join(sep, list) ==
    IF list = <<>> THEN <<>>
    ELSE IF Len(list) = 1 THEN <<list[1]>>
    ELSE <<list[1], sep>> \o join(sep, Tail(list))

\* ------------------------------------------------------------- exceptions
NoExc == [type |-> "", msg |-> <<>>]

Exc(type, msg) == [type |-> type, msg |-> msg]

DockerUnavailableMsg ==
    <<"Docker", "is", "not", "available", "or", "not", "running.">>

\* str(subprocess.TimeoutExpired(cmd, t))
TimeoutExpiredMsg(t) == <<"Command", "timed", "out", "after", t, "seconds">>

\* =====================================================================
\* Container Runtime Adapter (engine/docker_runner.py)
\* =====================================================================

\* A build configuration: the three values hashed by _hash_config.
\* The second differs from the first only in the order of its packages.
BuildConfigs ==
    { [runtime_image |-> "python:3.11-slim", system_dependencies |-> <<>>,
       python_dependencies |-> <<"flask", "requests">>],
      [runtime_image |-> "python:3.11-slim", system_dependencies |-> <<>>,
       python_dependencies |-> <<"requests", "flask">>],
      [runtime_image |-> "python:3.12-slim", system_dependencies |-> <<"git">>,
       python_dependencies |-> <<>>] }

\* The text that is hashed.  sha256(...).hexdigest()[:12] is modelled as a
\* collision-free labelling: a digest is represented by the text it digests.
hash_config(runtime_image, system_dependencies, python_dependencies) ==
    <<runtime_image, "|">> \o join(",", sorted(system_dependencies))
        \o <<"|">> \o join(",", sorted(python_dependencies))

image_tag(cfg) ==
    <<DEPS_IMAGE_PREFIX, ":">>
        \o hash_config(cfg.runtime_image, cfg.system_dependencies,
                       cfg.python_dependencies)

\* What the `docker image inspect` subprocess of _image_exists does: it
\* answers with an exit status, or it does not (it exceeds its 10 seconds,
\* or it cannot be started) and subprocess.run raises.
InspectOutcomes == {"answered", "timeout"}

\* Against a stopped daemon the docker client exits with a non-zero status
\* ("refused") or hangs until the timeout.
InspectOutcomesWhen(up) == IF up THEN InspectOutcomes ELSE {"refused", "timeout"}

\* _image_exists: exit status 0 of `docker image inspect tag` against the
\* daemon's image store; any exception of the subprocess counts as False.
image_exists(imgs, tag, probe) ==
    IF probe = "answered" THEN tag \in imgs ELSE FALSE

is_available_unmemoized(memo, up) ==
    [memo |-> IF up THEN "True" ELSE "False", result |-> up, probed |-> TRUE]

\* is_available: probes `docker info` only while the memo is unset.
\* memo is "None", "True" or "False"; up is the daemon's state right now.
is_available(memo, up) ==
    IF memo = "None"
    THEN [memo |-> IF up THEN "True" ELSE "False", result |-> up, probed |-> TRUE]
    ELSE [memo |-> memo, result |-> (memo = "True"), probed |-> FALSE]

\* check_available: is_available, and RuntimeError when it answers False.
check_available(memo, up) ==
    LET a == is_available(memo, up)
    IN  [memo |-> a.memo, probed |-> a.probed, raised |-> ~a.result,
         exc |-> IF a.result THEN NoExc
                 ELSE Exc("RuntimeError", DockerUnavailableMsg)]

build_deps_image_cache_first(memo, deps, up, imgs, cfg, force_rebuild, probe, outcome) ==
    LET a == is_available(memo, up)
        tag == image_tag(cfg)
        base == [memo |-> a.memo, probed |-> a.probed, deps |-> deps,
                 images |-> imgs, built |-> 0, raised |-> FALSE,
                 exc |-> NoExc, value |-> None]
    IN  IF ~a.result
        THEN [base EXCEPT !.raised = TRUE,
                          !.exc = Exc("RuntimeError", DockerUnavailableMsg)]
        ELSE IF image_exists(imgs, tag, probe)
        THEN [base EXCEPT !.deps = tag, !.value = tag]
        ELSE IF outcome = "ok"
        THEN [base EXCEPT !.built = 1, !.images = imgs \cup {tag},
                          !.deps = tag, !.value = tag]
        ELSE IF outcome = "nonzero"
        THEN [base EXCEPT !.built = 1, !.raised = TRUE,
                          !.exc = Exc("RuntimeError",
                                      <<"Docker", "build", "failed:", "ERROR">>)]
        ELSE [base EXCEPT !.built = 1, !.raised = TRUE,
                          !.exc = Exc("TimeoutExpired", TimeoutExpiredMsg("600"))]

\* build_deps_image as a function of the adapter's fields (memo, deps), the
\* daemon (up, imgs), the arguments (cfg, force_rebuild) and the outcome of
\* the `docker image inspect` probe (probe) and of the `docker build`
\* subprocess (outcome: "ok", "nonzero", "timeout"), if they are started.
\* built counts the docker build subprocesses started.
build_deps_image(memo, deps, up, imgs, cfg, force_rebuild, probe, outcome) ==
    LET a == is_available(memo, up)
        tag == image_tag(cfg)
        base == [memo |-> a.memo, probed |-> a.probed, deps |-> deps,
                 images |-> imgs, built |-> 0, raised |-> FALSE,
                 exc |-> NoExc, value |-> None]
    IN  IF ~a.result
        THEN [base EXCEPT !.raised = TRUE,
                          !.exc = Exc("RuntimeError", DockerUnavailableMsg)]
        ELSE IF ~force_rebuild /\ image_exists(imgs, tag, probe)
        THEN [base EXCEPT !.deps = tag, !.value = tag]
        ELSE IF outcome = "ok"
        THEN [base EXCEPT !.built = 1, !.images = imgs \cup {tag},
                          !.deps = tag, !.value = tag]
        ELSE IF outcome = "nonzero"
        THEN [base EXCEPT !.built = 1, !.raised = TRUE,
                          !.exc = Exc("RuntimeError",
                                      <<"Docker", "build", "failed:", "ERROR">>)]
        ELSE [base EXCEPT !.built = 1, !.raised = TRUE,
                          !.exc = Exc("TimeoutExpired", TimeoutExpiredMsg("600"))]

BuildOutcomes == {"ok", "nonzero", "timeout"}

\* `docker build` cannot succeed against a stopped daemon.
BuildOutcomesWhen(up) == IF up THEN BuildOutcomes ELSE {"nonzero", "timeout"}

\* cleanup_image: `docker rmi tag`; True iff the image was there and removed.
cleanup_image(imgs, tag) ==
    [images |-> imgs \ {tag}, value |-> (tag \in imgs)]

\* =====================================================================
\* State
\* =====================================================================
VARIABLES
    \* the docker daemon
    dockerUp,           \* `docker info` would succeed right now
    images,             \* tags in the local image store
    \* the DockerRunner instance
    docker_available,   \* self._docker_available: "None", "True", "False"
    deps_image,         \* self._deps_image
    calls,              \* history of the adapter's method calls
    \* one `codegate run` invocation
    pc,                 \* position in run_contract / EvaluationRunner.run
    contract,           \* the contract file and what it declares
    artifact_info,      \* what _prepare_environment returned
    rule_results,       \* EvaluationRunner.run's rule_results list
    idx,                \* position of the for loop over rules.items()
    cur,                \* the rule being executed and its phase
    events,             \* history: build attempts, rule starts and ends
    commands,           \* history: container commands handed to run_command
    results,            \* the dictionary returned by runner.run
    written,            \* the output file holds the result document
    error,              \* the exception that ended run_contract, if any
    exit_code,          \* run_contract's return value, -1 while running
    \* one execution of the policy rule
    policy_input,       \* the project directory, the rule's config, pkg_map
    analysed,           \* the python files the loop has gone through
    violations,         \* execute's violations list
    used_distributions, \* execute's used_distributions set
    policy_ret,         \* what execute returned
    \* several runs that build against one image store
    runs,               \* each run's build_deps_image call: position, result
    store               \* the images of the local store, with their tags

daemonVars == <<dockerUp, images>>
adapterVars == <<docker_available, deps_image, calls>>
cliVars == <<pc, contract, artifact_info, rule_results, idx, cur, events,
             commands, results, written, error, exit_code>>
vars == <<dockerUp, images, docker_available, deps_image, calls, pc, contract,
          artifact_info, rule_results, idx, cur, events, commands, results,
          written, error, exit_code, policy_input, analysed, violations,
          used_distributions, policy_ret, runs, store>>
buildVars == <<runs, store>>
policyVars == <<policy_input, analysed, violations, used_distributions,
                policy_ret>>

\* =====================================================================
\* Contracts (contract/parser.py, contract/schema.py)
\* =====================================================================

\* Rule names a contract may declare.  "custom-rule" is not a built-in name:
\* the schema only warns about it and the runner looks for a module of
\* that name among the rule modules.
RuleNames == {"build_imports", "unit_tests", "security_sast", "security_deps",
              "policy", "custom-rule"}

\* rule_name.replace("-", "_")
module_name(rule_name) ==
    IF rule_name = "custom-rule" THEN "custom_rule" ELSE rule_name

\* A rule's config as the schema lets it through: `enabled` is a boolean,
\* written "true" or "false".
RuleConfigs == [name : RuleNames, enabled : {"true", "false"}]

\* rules is a mapping: the keys are unique, the order is the file's order.
RuleLists ==
    { rs \in UNION { [1..n -> RuleConfigs] : n \in 0..MaxRules } :
        \A a, b \in 1..Len(rs) : (a # b) => (rs[a].name # rs[b].name) }

\* What is wrong with the contract file, if anything.  "wrong_type" is a
\* section or field whose type the schema tests (rules not a mapping,
\* network_access not a boolean, ...); "unchecked_type" is a field whose
\* type it does not test (runtime_image: 123, system_dependencies: [1, 2],
\* security_sast.timeout: "x"), which validate lets through.
FileKinds == {"ok", "missing", "invalid_yaml", "empty", "missing_field",
              "wrong_type", "no_enabled", "enabled_not_bool", "unchecked_type"}

CliConfig ==
    [runtime_image |-> "python:3.11-slim", system_dependencies |-> <<>>,
     python_dependencies |-> <<"requests", "flask">>]

\* ContractParser.parse with ContractSchema.validate: the exception it
\* raises, NoExc if the contract is returned.
parse(c) ==
    IF c.file = "missing"
    THEN Exc("FileNotFoundError", <<"Contract", "file", "not", "found:">>)
    ELSE IF c.file = "invalid_yaml"
    THEN Exc("ValueError", <<"Invalid", "YAML", "syntax:">>)
    ELSE IF c.file = "empty"
    THEN Exc("ValueError", <<"Contract", "file", "is", "empty">>)
    ELSE IF c.file = "missing_field"
    THEN Exc("ValueError", <<"Missing", "required", "field:">>)
    ELSE IF c.file = "wrong_type"
    THEN Exc("ValueError", <<"must", "be", "a", "dictionary">>)
    ELSE IF c.file = "no_enabled"
    THEN Exc("ValueError", <<"must", "have", "an", "'enabled'", "field">>)
    ELSE IF c.file = "enabled_not_bool"
    THEN Exc("ValueError", <<"'enabled'", "must", "be", "a", "boolean">>)
    ELSE NoExc

\* =====================================================================
\* Results (engine/result.py)
\* =====================================================================
RuleResult(rule_name, passed, message) ==
    [rule_name |-> rule_name, passed |-> passed, message |-> message]

passed_count_all(rs) == Len(rs)

\* sum(1 for r in self.rule_results if r.passed)
RECURSIVE passed_count(_)
passed_count(rs) ==
    IF rs = <<>> THEN 0
    ELSE (IF rs[1].passed THEN 1 ELSE 0) + passed_count(Tail(rs))

NoResults ==
    [present |-> FALSE, fault |-> "", total |-> 0, passed |-> 0, failed |-> 0,
     success_rate |-> 0, results |-> <<>>]

\* to_dict without the guard on an empty result list: the division faults.
to_dict_unguarded(rs) ==
    [present |-> TRUE,
     fault |-> IF rs = <<>> THEN "ZeroDivisionError" ELSE "",
     total |-> Len(rs), passed |-> passed_count(rs),
     failed |-> Len(rs) - passed_count(rs),
     success_rate |-> IF rs # <<>>
                      THEN (2000 * passed_count(rs) + Len(rs)) \div (2 * Len(rs))
                      ELSE 0,
     results |-> rs]

\* EvaluationResult.to_dict.  success_rate is in tenths of a percent:
\* round(passed / total * 100, 1), and 0.0 when there are no results.
to_dict(rs) ==
    LET p == passed_count(rs)
        n == Len(rs)
    IN  [present |-> TRUE, fault |-> "", total |-> n, passed |-> p,
         failed |-> n - p,
         success_rate |-> IF rs # <<>> THEN (2000 * p + n) \div (2 * n) ELSE 0,
         results |-> rs]

\* =====================================================================
\* run_command and the rules (engine/docker_runner.py, rules/*.py)
\* =====================================================================

\* What a callee hands back: a returned (passed, message) or an exception.
Returned(passed, message) ==
    [raised |-> FALSE, exc |-> NoExc, passed |-> passed, message |-> message]

Raised(e) == [raised |-> TRUE, exc |-> e, passed |-> FALSE, message |-> <<>>]

run_command_pre_unchecked(memo, up, image) ==
    IF image = None
    THEN Exc("TypeError", <<"expected", "str,", "bytes", "or", "os.PathLike",
                            "object,", "not", "NoneType">>)
    ELSE NoExc

\* run_command up to subprocess.run: the exception raised before any
\* container is started, NoExc if `docker run` is started.
run_command_pre(memo, up, image) ==
    IF ~is_available(memo, up).result
    THEN Exc("RuntimeError", DockerUnavailableMsg)
    ELSE IF image = None
    THEN Exc("TypeError", <<"expected", "str,", "bytes", "or", "os.PathLike",
                            "object,", "not", "NoneType">>)
    ELSE NoExc

\* The project directory of the run, resolved, and the environment a
\* client may hand to run_command (a dict of one variable, as its items).
ProjectPath == <<"/abs/project">>

SomeEnvironment == << <<"PYTHONPATH", "/workspace">> >>

\* for k, v in environment.items(): cmd.extend(["-e", f"{k}={v}"])
RECURSIVE environment_options(_)
environment_options(environment) ==
    IF environment = <<>> THEN <<>>
    ELSE <<"-e", environment[1][1], "=", environment[1][2]>>
             \o environment_options(Tail(environment))

docker_run_cmd_volume_after_image(image, command, project_path, network_access, writable, environment) ==
    <<"docker", "run", "--rm">>
        \o (IF ~network_access THEN <<"--network=none">> ELSE <<>>)
        \o environment_options(environment)
        \o image
        \o (IF project_path # None
            THEN <<"-v">> \o project_path
                     \o <<":", WORKSPACE_PATH, ":", IF writable THEN "rw" ELSE "ro">>
            ELSE <<>>)
        \o command

\* The docker run argument list built by run_command.  An argument that is
\* one string in Python is a run of tokens here: the volume argument is
\* path, ":", workspace, ":", mode.
docker_run_cmd(image, command, project_path, network_access, writable, environment) ==
    <<"docker", "run", "--rm">>
        \o (IF ~network_access THEN <<"--network=none">> ELSE <<>>)
        \o (IF project_path # None
            THEN <<"-v">> \o project_path
                     \o <<":", WORKSPACE_PATH, ":", IF writable THEN "rw" ELSE "ro">>
            ELSE <<>>)
        \o environment_options(environment)
        \o image \o command

\* A container that was started: the arguments run_command was called
\* with, the argument list it built, what the container did, and the rule
\* and phase that asked for it (0 and "" for another client).
CommandRecord(rule, phase, outcome, image, command, project_path, network_access, writable, environment) ==
    [rule |-> rule, phase |-> phase, outcome |-> outcome, image |-> image,
     command |-> command, project_path |-> project_path,
     network_access |-> network_access, writable |-> writable,
     environment |-> environment,
     cmd |-> docker_run_cmd(image, command, project_path, network_access,
                            writable, environment)]

\* Default timeouts of the rules, as they appear in messages.
ImportTimeout == "120s"
TestsTimeout == "300s"
SastTimeout == "120s"
DepsTimeout == "180s"

DockerNotBuiltMsg ==
    <<"Docker", "not", "available", "or", "deps", "image", "not", "built">>

\* run_command handing a timeout back as a value instead of raising.
run_command_timeout_as_data(memo, up, image, outcome) ==
    LET pre == run_command_pre(memo, up, image)
    IN  IF pre # NoExc
        THEN [raised |-> TRUE, exc |-> pre, launched |-> FALSE, out |-> ""]
        ELSE [raised |-> FALSE, exc |-> NoExc, launched |-> TRUE,
              out |-> outcome]

\* run_command: what the caller gets.  outcome is what the container does
\* once started: "timeout" (subprocess.TimeoutExpired is raised) or a label
\* of the completed process (its return code and the shape of its output).
run_command(memo, up, image, outcome) ==
    LET pre == run_command_pre(memo, up, image)
    IN  IF pre # NoExc
        THEN [raised |-> TRUE, exc |-> pre, launched |-> FALSE, out |-> ""]
        ELSE IF outcome = "timeout"
        THEN [raised |-> TRUE,
              exc |-> Exc("TimeoutExpired", TimeoutExpiredMsg("n")),
              launched |-> TRUE, out |-> ""]
        ELSE [raised |-> FALSE, exc |-> NoExc, launched |-> TRUE,
              out |-> outcome]

\* A step of a rule: either the rule goes on to its next phase, or execute
\* is over with ret.
Continue(phase) == [done |-> FALSE, next |-> phase, ret |-> Returned(FALSE, <<>>)]

Done(ret) == [done |-> TRUE, next |-> "", ret |-> ret]

\* ---- build_imports --------------------------------------------------
CompileOutcomes == {"timeout", "nonzero", "ok"}
ImportOutcomes == {"timeout", "nonzero", "no_marker", "ok"}

\* importlib.import_module('') raises ValueError in the container: with an
\* empty entry point the import command cannot print IMPORT_OK.
ImportOutcomesFor(entry_point) ==
    IF entry_point = "" THEN ImportOutcomes \ {"ok"} ELSE ImportOutcomes

\* _phase_compile: the phase's result dictionary (success, error).
phase_compile(proc) ==
    IF proc.raised
    THEN IF proc.exc.type = "TimeoutExpired"
         THEN [success |-> FALSE, error |-> <<"Compilation", "timed", "out">>]
         ELSE [success |-> FALSE, error |-> proc.exc.msg]
    ELSE IF proc.out # "ok"
    THEN [success |-> FALSE, error |-> <<"SyntaxError:", "invalid", "syntax">>]
    ELSE [success |-> TRUE, error |-> <<>>]

\* _phase_import
phase_import(proc, entry_point) ==
    IF proc.raised
    THEN IF proc.exc.type = "TimeoutExpired"
         THEN [success |-> FALSE, error |-> <<"Import", "timed", "out">>]
         ELSE [success |-> FALSE, error |-> proc.exc.msg]
    ELSE IF proc.out # "ok"
    THEN [success |-> FALSE, error |-> <<"Failed", "to", "import", entry_point>>]
    ELSE [success |-> TRUE, error |-> <<>>]

\* build_imports Rule.execute, after phase 1.
build_imports_after_compile(phase1) ==
    IF ~phase1.success
    THEN Done(Returned(FALSE, <<"Compilation", "failed:">> \o phase1.error))
    ELSE Continue("import")

\* build_imports Rule.execute, after phase 2.
build_imports_after_import(phase2) ==
    IF ~phase2.success
    THEN Done(Returned(FALSE, <<"Import", "failed:">> \o phase2.error))
    ELSE Done(Returned(TRUE, <<"Build", "and", "import", "checks", "passed">>))

\* ---- unit_tests -------------------------------------------------------
\* What the rule finds on disk: the test directory and its test files.
TestDirStates == {"no_test_dir", "no_test_files", "tests"}
PytestOutcomes == {"timeout", "nonzero_failed", "nonzero", "low_coverage", "ok"}

\* Paths are sequences of segments.  The contract file lies in BasePath and
\* names the project as ./project, so that ProjectPath is the resolved
\* project directory; a path is absolute when it starts at one of the two.
BasePath == <<"/abs">>

is_absolute(path) == path # <<>> /\ Head(path) \in {Head(BasePath), Head(ProjectPath)}

\* rules.unit_tests.test_directory of a contract: absent, or a directory
\* (<<>> is ".").
NoTestDirectory == [given |-> FALSE, value |-> <<>>]

TestDirectories ==
    { [given |-> TRUE, value |-> value] :
        value \in {<<"tests">>, <<"tests", "unit">>, <<>>,
                   ProjectPath \o <<"tests">>} }

\* ContractParser._resolve_paths on rules.unit_tests.test_directory: a
\* relative directory is made absolute against the contract's directory.
resolve_paths(test_directory) ==
    IF test_directory.given /\ ~is_absolute(test_directory.value)
    THEN [given |-> TRUE, value |-> BasePath \o test_directory.value]
    ELSE test_directory

\* Rule.__init__: config.get("test_directory", "tests/").
rule_test_directory(test_directory) ==
    IF test_directory.given THEN test_directory.value ELSE <<"tests">>

\* Rule._is_relative_dir: "", "." and "./" are relative, otherwise whatever
\* does not start with "/".
is_relative_dir(value) == value = <<>> \/ ~is_absolute(value)

\* execute: an absolute host path falls back to the project root.
test_dir_rel(value) == IF ~is_relative_dir(value) THEN <<>> ELSE value

\* execute: the host directory searched for test files.
test_dir(project_path, rel) == project_path \o rel

\* The rule's test directory for a contract loaded by ContractParser.parse,
\* relative to the project.
unit_tests_dir_rel(c) ==
    test_dir_rel(rule_test_directory(resolve_paths(c.test_directory)))

\* execute: the pytest command line, on the in-container test path.
pytest_command(rel) ==
    <<"python", "-m", "pytest">> \o (<<WORKSPACE_PATH>> \o rel)
        \o <<"-v", "--tb=short", "--cov=", WORKSPACE_PATH, "--cov-report=term">>

\* unit_tests Rule.execute up to the container command.
unit_tests_begin(deps, fs) ==
    IF deps = None
    THEN Done(Returned(FALSE, DockerNotBuiltMsg))
    ELSE IF fs = "no_test_dir"
    THEN Done(Returned(FALSE, <<"Test", "directory", "not", "found:">>))
    ELSE IF fs = "no_test_files"
    THEN Done(Returned(FALSE, <<"No", "test", "files", "found">>))
    ELSE Continue("pytest")

\* unit_tests_pytest with the timeout reported as a plain test failure.
unit_tests_pytest_plain_failure(proc) ==
    IF proc.raised
    THEN Returned(FALSE, <<"Test", "execution", "failed">>)
    ELSE IF proc.out \in {"nonzero_failed", "nonzero"}
    THEN Returned(FALSE, <<"Tests", "failed">>)
    ELSE IF proc.out = "low_coverage"
    THEN Returned(FALSE, <<"Coverage", "50.0%", "below", "threshold", "85%">>)
    ELSE Returned(TRUE, <<"All", "tests", "passed", "with", "coverage">>)

\* unit_tests Rule.execute from the container command on.
unit_tests_pytest(proc) ==
    IF proc.raised
    THEN IF proc.exc.type = "TimeoutExpired"
         THEN Returned(FALSE, <<"Tests", "timed", "out", "after", TestsTimeout>>)
         ELSE Returned(FALSE, <<"Test", "execution", "failed:">> \o proc.exc.msg)
    ELSE IF proc.out = "nonzero_failed"
    THEN Returned(FALSE, <<"2", "test(s)", "failed">>)
    ELSE IF proc.out = "nonzero"
    THEN Returned(FALSE, <<"Tests", "failed">>)
    ELSE IF proc.out = "low_coverage"
    THEN Returned(FALSE, <<"Coverage", "50.0%", "below", "threshold", "85%">>)
    ELSE Returned(TRUE, <<"All", "tests", "passed", "with", "coverage">>)

\* ---- security_sast ----------------------------------------------------
BanditOutcomes == {"timeout", "high", "warnings", "clean", "not_installed",
                   "no_issues_text", "unparsable"}

\* security_sast Rule.execute
security_sast_execute(proc) ==
    IF proc.raised
    THEN IF proc.exc.type = "TimeoutExpired"
         THEN Returned(FALSE, <<"Security", "scan", "timed", "out", "after",
                                SastTimeout>>)
         ELSE Returned(FALSE, <<"Security", "scan", "failed:">> \o proc.exc.msg)
    ELSE IF proc.out = "high"
    THEN Returned(FALSE, <<"Found", "1", "high", "severity", "security",
                           "issue(s)">>)
    ELSE IF proc.out = "warnings"
    THEN Returned(TRUE, <<"Passed", "with", "warnings">>)
    ELSE IF proc.out = "clean"
    THEN Returned(TRUE, <<"No", "security", "issues", "found">>)
    ELSE IF proc.out = "not_installed"
    THEN Returned(TRUE, <<"SAST", "scanner", "(bandit)", "not", "available,",
                          "skipped">>)
    ELSE IF proc.out = "no_issues_text"
    THEN Returned(TRUE, <<"No", "security", "issues", "found">>)
    ELSE Returned(FALSE, <<"Security", "scan", "failed", "to", "parse",
                           "output">>)

\* ---- security_deps ----------------------------------------------------
ScannerOutcomes == {"timeout", "not_installed", "vulns", "clean"}

security_deps_begin(deps) ==
    IF deps = None
    THEN Done(Returned(FALSE, DockerNotBuiltMsg))
    ELSE Continue("pip_audit")

\* The try block of security_deps Rule.execute around one scanner's
\* command; after is what follows a scanner that is not installed.
security_deps_scan(proc, after) ==
    IF proc.raised
    THEN IF proc.exc.type = "TimeoutExpired"
         THEN Done(Returned(FALSE, <<"Dependency", "scan", "timed", "out",
                                     "after", DepsTimeout>>))
         ELSE Done(Returned(FALSE, <<"Dependency", "scan", "failed:">>
                                       \o proc.exc.msg))
    ELSE IF proc.out = "not_installed"
    THEN after
    ELSE IF proc.out = "vulns"
    THEN Done(Returned(FALSE, <<"Found", "1", "vulnerable", "dependencies">>))
    ELSE Done(Returned(TRUE, <<"No", "vulnerable", "dependencies", "found">>))

security_deps_pip_audit(proc) == security_deps_scan(proc, Continue("safety"))

security_deps_safety(proc) ==
    security_deps_scan(proc,
        Done(Returned(TRUE, <<"Dependency", "scanning", "skipped", "(no",
                              "scanner", "available)">>)))

\* ---- rules that start no container ------------------------------------
\* Messages of the exceptions a rule's own code may raise.
ExcMsgs == {<<"boom">>}

PolicyOutcomes == {"pass", "violations", "error"}

\* policy Rule.execute, by what the analysis finds.
policy_execute(outcome, msg) ==
    IF outcome = "pass"
    THEN Returned(TRUE, <<"No", "policy", "violations", "found">>)
    ELSE IF outcome = "violations"
    THEN Returned(FALSE, <<"Found", "1", "policy", "violation(s)">>)
    ELSE Returned(FALSE, <<"Policy", "check", "failed:">> \o msg)

CustomOutcomes == {"pass", "fail", "raise"}

\* A rule module that is not part of the package: it returns or raises.
custom_execute(outcome, msg) ==
    IF outcome = "pass" THEN Returned(TRUE, <<"ok">>)
    ELSE IF outcome = "fail" THEN Returned(FALSE, <<"failed">>)
    ELSE Raised(Exc("RuntimeError", msg))

\* =====================================================================
\* Policy analyzer (rules/policy.py)
\* =====================================================================
\* A dotted name is the sequence of its segments: "a.b.c" is <<"a", "b",
\* "c">> and the empty string is <<"">>, as str.split(".") gives them.

\* Distributions, in the two orders in which a Python set of them is
\* iterated here (the order depends on the process's hash seed).
SetOrders == { <<"PyYAML", "yaml-stub", "Something">>,
               <<"yaml-stub", "Something", "PyYAML">> }

\* importlib.metadata.packages_distributions(): top-level module -> list of
\* distributions.  yaml is provided by two distributions, listed in either
\* order; PyYAML provides two top-level modules; os is in no distribution.
PkgMaps ==
    { [m \in {"yaml", "_yaml"} |->
          IF m = "yaml" THEN ds ELSE <<"PyYAML">>] :
      ds \in { <<"PyYAML", "yaml-stub">>, <<"yaml-stub", "PyYAML">> } }

\* The policy rule's config.
PolicyConfig(forbidden_packages, forbidden_apis, forbidden_modules) ==
    [forbidden_packages |-> forbidden_packages,
     forbidden_apis |-> forbidden_apis,
     forbidden_modules |-> forbidden_modules]

PolicyConfigs ==
    { PolicyConfig(<<>>, <<>>, <<>>),
      PolicyConfig(<<"PyYAML">>, << <<"eval">>, <<"os", "system">> >>, <<>>),
      PolicyConfig(<<"yaml-stub", "PyYAML">>, <<>>, <<"os">>),
      PolicyConfig(<<"Something">>, << <<"eval">>, <<"os", "system">> >>,
                   <<"os">>) }

\* Callee expressions: a Name or another expression, wrapped in a chain of
\* Attribute accesses (attrs, innermost first).
NameExpr(id, attrs) == [root |-> "Name", id |-> id, attrs |-> attrs]
OtherExpr(attrs) == [root |-> "Other", id |-> "", attrs |-> attrs]

NoModule == <<>>

\* Syntax-tree nodes the analyzer looks at, each with its line number.
AstNode(type, lineno, names, module, func) ==
    [type |-> type, lineno |-> lineno, names |-> names, module |-> module,
     func |-> func]

AstNodes ==
    { AstNode("Import", 1, << <<"yaml">> >>, NoModule, OtherExpr(<<>>)),
      AstNode("Import", 2, << <<"os", "path">> >>, NoModule, OtherExpr(<<>>)),
      AstNode("Import", 3, << <<"_yaml">> >>, NoModule, OtherExpr(<<>>)),
      AstNode("Import", 4, << <<"yaml">>, <<"os", "path">> >>, NoModule,
              OtherExpr(<<>>)),
      AstNode("ImportFrom", 5, <<>>, NoModule, OtherExpr(<<>>)),
      AstNode("ImportFrom", 6, <<>>, <<"yaml", "parser">>, OtherExpr(<<>>)),
      AstNode("Call", 7, <<>>, NoModule, NameExpr("eval", <<>>)),
      AstNode("Call", 8, <<>>, NoModule, NameExpr("os", <<"system">>)),
      AstNode("Call", 9, <<>>, NoModule, OtherExpr(<<"system">>)),
      AstNode("Call", 10, <<>>, NoModule, NameExpr("os", <<"path", "join">>)) }

get_call_name_last_attr(node) ==
    IF node.attrs # <<>> THEN <<node.attrs[Len(node.attrs)]>>
    ELSE IF node.root = "Name" THEN <<node.id>>
    ELSE <<"">>

\* _get_call_name
RECURSIVE get_call_name(_)
get_call_name(node) ==
    IF node.attrs # <<>>
    THEN get_call_name([node EXCEPT !.attrs = SubSeq(node.attrs, 1,
                                                     Len(node.attrs) - 1)])
             \o <<node.attrs[Len(node.attrs)]>>
    ELSE IF node.root = "Name" THEN <<node.id>>
    ELSE <<"">>

\* _top_level_import_to_distributions: list(pkg_map.get(top_level) or [])
top_level_import_to_distributions(pkg_map, mod_name) ==
    LET top_level == mod_name[1]
    IN  IF top_level \in DOMAIN pkg_map THEN pkg_map[top_level] ELSE <<>>

ToSet(list) == { list[i] : i \in 1..Len(list) }

resolve_candidates_first(pkg_map, mod_name) ==
    LET all == top_level_import_to_distributions(pkg_map, <<mod_name[1]>>)
    IN  IF all = <<>> THEN {} ELSE {all[1]}

\* resolve_candidates: set(...) of the distributions of the top segment.
resolve_candidates(pkg_map, mod_name) ==
    ToSet(top_level_import_to_distributions(pkg_map, <<mod_name[1]>>))

\* add_violation's record, and that of _check_api_calls.
PackageViolation(file, line, mod_name, forbidden) ==
    [type |-> "forbidden_package", file |-> file, line |-> line,
     package |-> forbidden, import |-> mod_name, api |-> <<>>]

ApiViolation(file, line, call_name) ==
    [type |-> "forbidden_api", file |-> file, line |-> line, package |-> "",
     import |-> <<>>, api |-> call_name]

\* for forbidden in hits: add_violation(...), in the set's iteration order.
RECURSIVE hits_in_order(_, _, _, _, _)
hits_in_order(order, hits, file, line, mod_name) ==
    IF order = <<>> THEN <<>>
    ELSE (IF order[1] \in hits
          THEN <<PackageViolation(file, line, mod_name, order[1])>>
          ELSE <<>>)
             \o hits_in_order(Tail(order), hits, file, line, mod_name)

\* The body of _check_imports for one module name.
import_findings(mod_name, line, file, forbidden_packages, pkg_map, order) ==
    LET candidates == resolve_candidates(pkg_map, mod_name)
    IN  [used |-> candidates,
         violations |-> hits_in_order(order, candidates \cap forbidden_packages,
                                      file, line, mod_name)]

\* The module names a node makes _check_imports look at.
imported_names(node) ==
    IF node.type = "Import" THEN node.names
    ELSE IF node.type = "ImportFrom" /\ node.module # NoModule
    THEN <<node.module>>
    ELSE <<>>

RECURSIVE names_findings(_, _, _, _, _, _)
names_findings(names, line, file, forbidden_packages, pkg_map, order) ==
    IF names = <<>> THEN [used |-> {}, violations |-> <<>>]
    ELSE LET first == import_findings(names[1], line, file,
                                      forbidden_packages, pkg_map, order)
             rest == names_findings(Tail(names), line, file,
                                    forbidden_packages, pkg_map, order)
         IN  [used |-> first.used \cup rest.used,
              violations |-> first.violations \o rest.violations]

\* _check_imports: tree is the file's nodes in ast.walk order.  used is
\* what the call adds to used_distributions.
RECURSIVE check_imports(_, _, _, _, _)
check_imports(tree, file, forbidden_packages, pkg_map, order) ==
    IF tree = <<>> THEN [used |-> {}, violations |-> <<>>]
    ELSE LET first == names_findings(imported_names(tree[1]), tree[1].lineno,
                                     file, forbidden_packages, pkg_map, order)
             rest == check_imports(Tail(tree), file, forbidden_packages,
                                   pkg_map, order)
         IN  [used |-> first.used \cup rest.used,
              violations |-> first.violations \o rest.violations]

InList(x, list) == \E i \in 1..Len(list) : list[i] = x

\* _check_api_calls
RECURSIVE check_api_calls(_, _, _)
check_api_calls(tree, file, forbidden_apis) ==
    IF tree = <<>> THEN <<>>
    ELSE (IF /\ tree[1].type = "Call"
             /\ InList(get_call_name(tree[1].func), forbidden_apis)
          THEN <<ApiViolation(file, tree[1].lineno, get_call_name(tree[1].func))>>
          ELSE <<>>)
             \o check_api_calls(Tail(tree), file, forbidden_apis)

\* forbidden_packages as execute reads it from the config: the set of the
\* non-blank strings of the list.
forbidden_package_set(config) ==
    { p \in ToSet(config.forbidden_packages) : p # "" }

analyse_file_reports_unparsable(py_file, file, config, pkg_map, order) ==
    IF py_file.status # "ok"
    THEN [used |-> {},
          violations |-> <<[type |-> py_file.status, file |-> file, line |-> 0,
                            package |-> "", import |-> <<>>, api |-> <<>>]>>]
    ELSE LET imports == check_imports(py_file.tree, file,
                                      forbidden_package_set(config), pkg_map,
                                      order)
         IN  [used |-> imports.used,
              violations |-> imports.violations
                  \o check_api_calls(py_file.tree, file, config.forbidden_apis)]

\* One turn of execute's loop over python_files.  A file that cannot be
\* read or parsed raises inside the try and the loop continues.
analyse_file(py_file, file, config, pkg_map, order) ==
    IF py_file.status # "ok"
    THEN [used |-> {}, violations |-> <<>>]
    ELSE LET imports == check_imports(py_file.tree, file,
                                      forbidden_package_set(config), pkg_map,
                                      order)
         IN  [used |-> imports.used,
              violations |-> imports.violations
                  \o check_api_calls(py_file.tree, file, config.forbidden_apis)]

\* sorted(used_distributions)
DistributionOrder == <<"PyYAML", "Something", "yaml-stub">>

sorted_distributions(used) == SelectSeq(DistributionOrder, LAMBDA d : d \in used)

NoPolicyReturn ==
    [returned |-> FALSE, passed |-> FALSE, message |-> <<>>, count |-> 0,
     details |-> [violations |-> <<>>, used_distributions |-> <<>>,
                  files_checked |-> 0]]

policy_return_counts_files(found, used, files_checked) ==
    [returned |-> TRUE,
     passed |-> ~(Len(found) > 0),
     message |-> IF Len(found) > 0
                 THEN <<"Found", files_checked, "policy", "violation(s)">>
                 ELSE <<"No", "policy", "violations", "found">>,
     count |-> files_checked,
     details |-> [violations |-> found,
                  used_distributions |-> sorted_distributions(used),
                  files_checked |-> files_checked]]

\* The end of execute: the verdict, the message and the details.
policy_return(found, used, files_checked) ==
    [returned |-> TRUE,
     passed |-> ~(Len(found) > 0),
     message |-> IF Len(found) > 0
                 THEN <<"Found", Len(found), "policy", "violation(s)">>
                 ELSE <<"No", "policy", "violations", "found">>,
     count |-> Len(found),
     details |-> [violations |-> found,
                  used_distributions |-> sorted_distributions(used),
                  files_checked |-> files_checked]]

\* =====================================================================
\* Evaluation Runner (engine/runner.py)
\* =====================================================================

\* What importing codegate.rules.<module> gives: the module with its Rule
\* class ("ok"), an ImportError ("missing": no such module, or the package
\* cannot be imported), another exception raised by the module's own code
\* ("broken"), or a module without a Rule class ("no_rule_class").  The
\* container rules' modules define Rule and parse; policy.py may fail to
\* compile; nothing is known of a module outside the package.
ModuleKinds(rule_name) ==
    IF module_name(rule_name) \in {"build_imports", "unit_tests",
                                    "security_sast", "security_deps"}
    THEN {"ok", "missing"}
    ELSE IF module_name(rule_name) = "policy"
    THEN {"ok", "missing", "broken"}
    ELSE {"ok", "missing", "broken", "no_rule_class"}

\* _load_rule_module letting the ImportError through as it is.
load_rule_module_unwrapped(rule_name, kind) ==
    IF kind = "missing"
    THEN Exc("ImportError", <<"No", "module", "named", module_name(rule_name)>>)
    ELSE IF kind = "broken"
    THEN Exc("SyntaxError", <<"invalid", "syntax">>)
    ELSE NoExc

\* _load_rule_module: the exception it raises, NoExc if it returns a module.
\* ImportError is re-raised with a "not found" text; anything else passes.
load_rule_module(rule_name, kind) ==
    IF kind = "missing"
    THEN Exc("ImportError",
             <<"Rule", rule_name, "not", "found", "at", "codegate.rules.",
               module_name(rule_name), ":", "No", "module", "named">>)
    ELSE IF kind = "broken"
    THEN Exc("SyntaxError", <<"invalid", "syntax">>)
    ELSE NoExc

\* rule_module.Rule(config): the exception it raises, NoExc if constructed.
construct_rule(rule_name, kind) ==
    IF kind = "no_rule_class"
    THEN Exc("AttributeError", <<"module", "codegate.rules.",
                                 module_name(rule_name), "has", "no",
                                 "attribute", "'Rule'">>)
    ELSE NoExc

\* The loop without its test for a disabled rule.
disabled_never(rule_config) == FALSE

\* The loop's test for a disabled rule:
\* isinstance(rule_config, dict) and not rule_config.get("enabled", True)
disabled(rule_config) == rule_config.enabled = "false"

\* The try block of _run_rule up to the rule's first container command.
\* deps is artifact_info's deps_image; fs, outcome and msg are what the
\* rule meets outside the engine.
rule_begin(rule_name, kind, deps, fs, outcome, msg) ==
    IF load_rule_module(rule_name, kind) # NoExc
    THEN Done(Raised(load_rule_module(rule_name, kind)))
    ELSE IF construct_rule(rule_name, kind) # NoExc
    THEN Done(Raised(construct_rule(rule_name, kind)))
    ELSE IF module_name(rule_name) = "build_imports" THEN Continue("compile")
    ELSE IF module_name(rule_name) = "unit_tests" THEN unit_tests_begin(deps, fs)
    ELSE IF module_name(rule_name) = "security_sast" THEN Continue("bandit")
    ELSE IF module_name(rule_name) = "security_deps" THEN security_deps_begin(deps)
    ELSE IF module_name(rule_name) = "policy"
    THEN Done(policy_execute(IF outcome = "raise" THEN "error" ELSE outcome, msg))
    ELSE Done(custom_execute(outcome, msg))

BeginOutcomes == {"pass", "violations", "fail", "raise"}

\* _run_rule without its except clause: the rule's exception leaves it.
run_rule_reraise(rule_name, ret) ==
    [raised |-> ret.raised, exc |-> ret.exc,
     result |-> RuleResult(rule_name, ret.passed, ret.message)]

\* _run_rule's try/except around what the rule did: the RuleResult it
\* returns (raised is for an exception that leaves _run_rule).
run_rule(rule_name, ret) ==
    IF ret.raised
    THEN [raised |-> FALSE, exc |-> NoExc,
          result |-> RuleResult(rule_name, FALSE,
                                <<"Rule", "execution", "failed:">> \o ret.exc.msg)]
    ELSE [raised |-> FALSE, exc |-> NoExc,
          result |-> RuleResult(rule_name, ret.passed, ret.message)]

NoArtifactInfo ==
    [present |-> FALSE, runtime_image |-> "", network_access |-> FALSE,
     system_dependencies |-> <<>>, python_dependencies |-> <<>>,
     entry_point |-> "", deps_image |-> None]

\* _prepare_environment without the try/except around the build.
prepare_environment_build_raises(c, b) ==
    IF ~c.path_exists
    THEN [raised |-> TRUE, attempted |-> FALSE,
          exc |-> Exc("ValueError", <<"Project", "path", "not", "found:">>),
          info |-> NoArtifactInfo]
    ELSE IF b.raised
    THEN [raised |-> TRUE, attempted |-> TRUE, exc |-> b.exc,
          info |-> NoArtifactInfo]
    ELSE [raised |-> FALSE, attempted |-> TRUE, exc |-> NoExc,
          info |-> [present |-> TRUE,
                    runtime_image |-> c.cfg.runtime_image,
                    network_access |-> c.network_access,
                    system_dependencies |-> c.cfg.system_dependencies,
                    python_dependencies |-> c.cfg.python_dependencies,
                    entry_point |-> c.entry_point,
                    deps_image |-> b.value]]

\* _prepare_environment checking the project path after the build.
prepare_environment_build_first(c, b) ==
    IF ~c.path_exists
    THEN [raised |-> TRUE, attempted |-> TRUE,
          exc |-> Exc("ValueError", <<"Project", "path", "not", "found:">>),
          info |-> NoArtifactInfo]
    ELSE [raised |-> FALSE, attempted |-> TRUE, exc |-> NoExc,
          info |-> [present |-> TRUE,
                    runtime_image |-> c.cfg.runtime_image,
                    network_access |-> c.network_access,
                    system_dependencies |-> c.cfg.system_dependencies,
                    python_dependencies |-> c.cfg.python_dependencies,
                    entry_point |-> c.entry_point,
                    deps_image |-> IF b.raised THEN None ELSE b.value]]

\* _prepare_environment.  b is what build_deps_image does if it is called.
\* attempted: build_deps_image was called; raised: the exception leaves
\* _prepare_environment.
prepare_environment(c, b) ==
    IF ~c.path_exists
    THEN [raised |-> TRUE, attempted |-> FALSE,
          exc |-> Exc("ValueError", <<"Project", "path", "not", "found:">>),
          info |-> NoArtifactInfo]
    ELSE [raised |-> FALSE, attempted |-> TRUE, exc |-> NoExc,
          info |-> [present |-> TRUE,
                    runtime_image |-> c.cfg.runtime_image,
                    network_access |-> c.network_access,
                    system_dependencies |-> c.cfg.system_dependencies,
                    python_dependencies |-> c.cfg.python_dependencies,
                    entry_point |-> c.entry_point,
                    deps_image |-> IF b.raised THEN None ELSE b.value]]

\* run_contract returning 0 whatever the summary says.
exit_status_zero(res) == 0

\* run_contract's last line.
exit_status(res) == IF res.failed = 0 THEN 0 ELSE 1

\* =====================================================================
\* Spec: one `codegate run <contract>` invocation
\* =====================================================================

\* History records.  An event is a "build" (exc: what build_deps_image
\* raised), a rule's "start" (tag: what loading its module gave), a
\* container "cmd" (tag: what the container did) or a rule's "end" (exc:
\* what the rule raised); rule is the rule's position in the contract.
Ev(kind, rule, tag, exc) == [kind |-> kind, rule |-> rule, tag |-> tag, exc |-> exc]

\* A call of an adapter method: its arguments (cfg and force for a build,
\* tag for a build or a cleanup), whether it raised, the image reference
\* or the boolean it returned, the docker build subprocesses it started
\* and whether it probed the daemon.
Call(op, cfg, force, tag, raised, value, answer, built, probed) ==
    [op |-> op, cfg |-> cfg, force |-> force, tag |-> tag, raised |-> raised,
     value |-> value, answer |-> answer, built |-> built, probed |-> probed]

\* A call with what else was observed of it: the exception it raised, the
\* docker run subprocesses it started and what the subprocess gave back
\* (result), the daemon's state during the call, and self._deps_image
\* before and after it.
Observed(call, exc, ran, result, up, before, after) ==
    [op |-> call.op, cfg |-> call.cfg, force |-> call.force, tag |-> call.tag,
     raised |-> call.raised, value |-> call.value, answer |-> call.answer,
     built |-> call.built, probed |-> call.probed, exc |-> exc, ran |-> ran,
     result |-> result, up |-> up, before |-> before, after |-> after]

BuildCall(cfg, force, b) ==
    Observed(Call("build_deps_image", cfg, force, image_tag(cfg), b.raised,
                  b.value, ~b.raised, b.built, b.probed),
             b.exc, 0, "", dockerUp, deps_image, b.deps)

NoCur == [name |-> "", phase |-> ""]

NoError == [type |-> "", msg |-> <<>>, stage |-> ""]

\* No policy rule is being executed on its own.
NoPolicyInput ==
    [path_exists |-> FALSE,
     config |-> [forbidden_packages |-> <<>>, forbidden_apis |-> <<>>,
                 forbidden_modules |-> <<>>],
     pkg_map |-> <<>>, order |-> <<>>]

\* No concurrent builds are being followed.
BuildsIdle ==
    /\ runs = <<>>
    /\ store = {}

PolicyIdle ==
    /\ policy_input = NoPolicyInput
    /\ analysed = <<>>
    /\ violations = <<>>
    /\ used_distributions = {}
    /\ policy_ret = NoPolicyReturn

Contracts ==
    { [file |-> "ok", path_exists |-> pe, cfg |-> CliConfig,
       network_access |-> na, entry_point |-> "main.py",
       test_directory |-> NoTestDirectory, rules |-> rs] :
        pe \in BOOLEAN, na \in BOOLEAN, rs \in RuleLists }
    \cup
    { [file |-> f, path_exists |-> TRUE, cfg |-> CliConfig,
       network_access |-> FALSE, entry_point |-> "main.py",
       test_directory |-> NoTestDirectory,
       rules |-> <<[name |-> "policy", enabled |-> "true"]>>] :
        f \in FileKinds \ {"ok"} }
    \cup
    \* project.entry_point is optional: a contract without it, for build_imports
    { [file |-> "ok", path_exists |-> TRUE, cfg |-> CliConfig,
       network_access |-> FALSE, entry_point |-> "",
       test_directory |-> NoTestDirectory,
       rules |-> <<[name |-> "build_imports", enabled |-> "true"]>>] }
    \cup
    \* rules.unit_tests.test_directory is optional: contracts that give it
    { [file |-> "ok", path_exists |-> TRUE, cfg |-> CliConfig,
       network_access |-> FALSE, entry_point |-> "main.py",
       test_directory |-> td,
       rules |-> <<[name |-> "unit_tests", enabled |-> "true"]>>] :
        td \in TestDirectories }

Init ==
    /\ dockerUp \in BOOLEAN
    /\ images \in IF dockerUp THEN {{}, {image_tag(CliConfig)}} ELSE {{}}
    /\ docker_available = "None"
    /\ deps_image = None
    /\ calls = <<>>
    /\ pc = "start"
    /\ contract \in Contracts
    /\ artifact_info = NoArtifactInfo
    /\ rule_results = <<>>
    /\ idx = 0
    /\ cur = NoCur
    /\ events = <<>>
    /\ commands = <<>>
    /\ results = NoResults
    /\ written = FALSE
    /\ error = NoError
    /\ exit_code = -1
    /\ PolicyIdle
    /\ BuildsIdle

\* An exception reaches run_contract's except clause: return 1.
Abort(e, stage) ==
    /\ pc' = "exited"
    /\ error' = [type |-> e.type, msg |-> e.msg, stage |-> stage]
    /\ exit_code' = 1

\* run_contract up to runner.run: the file check and ContractParser.parse.
LoadContract ==
    /\ pc = "start"
    /\ IF parse(contract) # NoExc
       THEN Abort(parse(contract), "load")
       ELSE /\ pc' = "loaded"
            /\ UNCHANGED <<error, exit_code>>
    /\ UNCHANGED <<daemonVars, adapterVars, contract, artifact_info,
                   rule_results, idx, cur, events, commands, results, written>>
    /\ UNCHANGED policyVars
    /\ UNCHANGED buildVars

\* EvaluationRunner.run, step 1: _prepare_environment.
PrepareEnvironment ==
    /\ pc = "loaded"
    /\ \E probe \in InspectOutcomesWhen(dockerUp),
          outcome \in BuildOutcomesWhen(dockerUp) :
        LET b == build_deps_image(docker_available, deps_image, dockerUp,
                                  images, contract.cfg, FALSE, probe, outcome)
            r == prepare_environment(contract, b)
        IN  /\ IF r.attempted
               THEN /\ docker_available' = b.memo
                    /\ deps_image' = b.deps
                    /\ images' = b.images
                    /\ calls' = Append(calls, BuildCall(contract.cfg, FALSE, b))
                    /\ events' = Append(events, Ev("build", 0, "", b.exc))
               ELSE UNCHANGED <<docker_available, deps_image, images, calls,
                                events>>
            /\ IF r.raised
               THEN /\ Abort(r.exc, "prepare")
                    /\ UNCHANGED <<artifact_info, idx>>
               ELSE /\ artifact_info' = r.info
                    /\ idx' = 1
                    /\ pc' = "dispatch"
                    /\ UNCHANGED <<error, exit_code>>
    /\ UNCHANGED <<dockerUp, contract, rule_results, cur, commands, results,
                   written>>
    /\ UNCHANGED policyVars
    /\ UNCHANGED buildVars

\* The loop of EvaluationRunner.run meets a disabled rule: continue.
SkipDisabledRule ==
    /\ pc = "dispatch"
    /\ idx <= Len(contract.rules)
    /\ disabled(contract.rules[idx])
    /\ idx' = idx + 1
    /\ UNCHANGED <<daemonVars, adapterVars, pc, contract, artifact_info,
                   rule_results, cur, events, commands, results, written,
                   error, exit_code>>
    /\ UNCHANGED policyVars
    /\ UNCHANGED buildVars

\* The result inserted at the front of the list.
append_result_front(rs, result) == <<result>> \o rs

\* The result reported a second time.
append_result_twice(rs, result) == rs \o <<result, result>>

\* rule_results.append(result)
append_result(rs, result) == Append(rs, result)

\* _run_rule is over with ret: the result is appended and the loop goes on.
\* evs is what this step adds to the history before the rule's end.
FinishRule(ret, evs) ==
    LET name == contract.rules[idx].name
        rr == run_rule(name, ret)
    IN  /\ events' = events \o evs \o <<Ev("end", idx, "", ret.exc)>>
        /\ cur' = NoCur
        /\ IF rr.raised
           THEN /\ Abort(rr.exc, "rule")
                /\ UNCHANGED <<rule_results, idx>>
           ELSE /\ rule_results' = append_result(rule_results, rr.result)
                /\ idx' = idx + 1
                /\ pc' = "dispatch"
                /\ UNCHANGED <<error, exit_code>>

\* The rule goes on to the container command of its next phase.
EnterPhase(phase, evs) ==
    /\ events' = events \o evs
    /\ cur' = [name |-> contract.rules[idx].name, phase |-> phase]
    /\ pc' = "in_rule"
    /\ UNCHANGED <<rule_results, idx, error, exit_code>>

Advance(step, evs) ==
    IF step.done THEN FinishRule(step.ret, evs) ELSE EnterPhase(step.next, evs)

\* The loop meets an enabled rule: _run_rule loads the module, constructs
\* the rule and calls execute, which runs up to its first container command.
RunRule ==
    /\ pc = "dispatch"
    /\ idx <= Len(contract.rules)
    /\ ~disabled(contract.rules[idx])
    /\ \E kind \in ModuleKinds(contract.rules[idx].name),
          \* what is on disk matters to unit_tests only, and the outcome of
          \* an analysis to the rules that run no container
          fs \in IF module_name(contract.rules[idx].name) = "unit_tests"
                 THEN TestDirStates ELSE {"tests"},
          o \in IF module_name(contract.rules[idx].name) \in {"policy", "custom_rule"}
                THEN BeginOutcomes ELSE {"pass"},
          m \in ExcMsgs :
        Advance(rule_begin(contract.rules[idx].name, kind,
                           artifact_info.deps_image, fs, o, m),
                <<Ev("start", idx, kind, NoExc)>>)
    /\ UNCHANGED <<daemonVars, adapterVars, contract, artifact_info, commands,
                   results, written>>
    /\ UNCHANGED policyVars
    /\ UNCHANGED buildVars

\* run_command as the rule being executed calls it: on the deps image of
\* artifact_info, against the daemon as it is now.
current_command(outcome) ==
    run_command(docker_available, dockerUp, artifact_info.deps_image, outcome)

\* One container command of the rule being executed (proc: what run_command
\* did), then the rule's code up to its next command or its return (step).
ContainerCommand(phase, outcome, proc, command, network_access, writable, step) ==
    /\ docker_available' = is_available(docker_available, dockerUp).memo
    /\ commands' =
         IF proc.launched
         THEN Append(commands,
                CommandRecord(idx, phase, outcome, artifact_info.deps_image,
                              command, ProjectPath, network_access, writable,
                              <<>>))
         ELSE commands
    /\ Advance(step,
               IF proc.launched THEN <<Ev("cmd", idx, outcome, NoExc)>> ELSE <<>>)
    /\ UNCHANGED <<daemonVars, deps_image, calls, contract, artifact_info,
                   results, written>>

\* build_imports: python -m compileall in a writable container.
BuildImportsCompile ==
    /\ pc = "in_rule"
    /\ cur.phase = "compile"
    /\ \E outcome \in CompileOutcomes :
        LET proc == current_command(outcome)
        IN  ContainerCommand("compile", outcome, proc,
                <<"python", "-m", "compileall", WORKSPACE_PATH>>,
                artifact_info.network_access, TRUE,
                build_imports_after_compile(phase_compile(proc)))
    /\ UNCHANGED policyVars
    /\ UNCHANGED buildVars

\* build_imports: python -c "import <entry point>".
BuildImportsImport ==
    /\ pc = "in_rule"
    /\ cur.phase = "import"
    /\ \E outcome \in ImportOutcomesFor(artifact_info.entry_point) :
        LET proc == current_command(outcome)
        IN  ContainerCommand("import", outcome, proc,
                <<"python", "-c", "import", artifact_info.entry_point>>,
                artifact_info.network_access, FALSE,
                build_imports_after_import(
                    phase_import(proc, artifact_info.entry_point)))
    /\ UNCHANGED policyVars
    /\ UNCHANGED buildVars

\* unit_tests: python -m pytest in a writable container.
UnitTestsPytest ==
    /\ pc = "in_rule"
    /\ cur.phase = "pytest"
    /\ \E outcome \in PytestOutcomes :
        LET proc == current_command(outcome)
        IN  ContainerCommand("pytest", outcome, proc,
                pytest_command(unit_tests_dir_rel(contract)),
                artifact_info.network_access, TRUE,
                Done(unit_tests_pytest(proc)))
    /\ UNCHANGED policyVars
    /\ UNCHANGED buildVars

\* security_sast: python -m bandit -r.
SecuritySastBandit ==
    /\ pc = "in_rule"
    /\ cur.phase = "bandit"
    /\ \E outcome \in BanditOutcomes :
        LET proc == current_command(outcome)
        IN  ContainerCommand("bandit", outcome, proc,
                <<"python", "-m", "bandit", "-r", WORKSPACE_PATH>>,
                artifact_info.network_access, FALSE,
                Done(security_sast_execute(proc)))
    /\ UNCHANGED policyVars
    /\ UNCHANGED buildVars

\* security_deps: pip-audit, with network access.
SecurityDepsPipAudit ==
    /\ pc = "in_rule"
    /\ cur.phase = "pip_audit"
    /\ \E outcome \in ScannerOutcomes :
        LET proc == current_command(outcome)
        IN  ContainerCommand("pip_audit", outcome, proc,
                <<"python", "-m", "pip_audit">>, TRUE, FALSE,
                security_deps_pip_audit(proc))
    /\ UNCHANGED policyVars
    /\ UNCHANGED buildVars

\* security_deps: safety check, with network access.
SecurityDepsSafety ==
    /\ pc = "in_rule"
    /\ cur.phase = "safety"
    /\ \E outcome \in ScannerOutcomes :
        LET proc == current_command(outcome)
        IN  ContainerCommand("safety", outcome, proc,
                <<"python", "-m", "safety", "check">>, TRUE, FALSE,
                security_deps_safety(proc))
    /\ UNCHANGED policyVars
    /\ UNCHANGED buildVars

\* EvaluationRunner.run, step 3: the loop is over, EvaluationResult.to_dict.
Aggregate ==
    /\ pc = "dispatch"
    /\ idx > Len(contract.rules)
    /\ IF to_dict(rule_results).fault # ""
       THEN /\ Abort(Exc(to_dict(rule_results).fault, <<"division", "by", "zero">>),
                     "aggregate")
            /\ UNCHANGED results
       ELSE /\ results' = to_dict(rule_results)
            /\ pc' = "ran"
            /\ UNCHANGED <<error, exit_code>>
    /\ UNCHANGED <<daemonVars, adapterVars, contract, artifact_info,
                   rule_results, idx, cur, events, commands, written>>
    /\ UNCHANGED policyVars
    /\ UNCHANGED buildVars

\* run_contract after runner.run: write the result document, print the
\* summary, return the exit code.  The write may fail (OSError).
WriteResults ==
    /\ pc = "ran"
    /\ \E ok \in BOOLEAN :
        IF ok
        THEN /\ written' = TRUE
             /\ exit_code' = exit_status(results)
             /\ pc' = "exited"
             /\ UNCHANGED error
        ELSE /\ Abort(Exc("OSError", <<"No", "such", "file", "or", "directory">>),
                      "write")
             /\ UNCHANGED written
    /\ UNCHANGED <<daemonVars, adapterVars, contract, artifact_info,
                   rule_results, idx, cur, events, commands, results>>
    /\ UNCHANGED policyVars
    /\ UNCHANGED buildVars

Next ==
    \/ LoadContract
    \/ PrepareEnvironment
    \/ SkipDisabledRule
    \/ RunRule
    \/ BuildImportsCompile
    \/ BuildImportsImport
    \/ UnitTestsPytest
    \/ SecuritySastBandit
    \/ SecurityDepsPipAudit
    \/ SecurityDepsSafety
    \/ Aggregate
    \/ WriteResults

Spec == Init /\ [][Next]_vars

\* =====================================================================
\* SpecAdapter: a client calls one DockerRunner's methods in any order
\* =====================================================================
\* What a container started by a client's run_command does: it exits with
\* status 0, exits with another status, or outlives the timeout.
CommandOutcomes == {"ok", "nonzero", "timeout"}

\* `docker run` cannot succeed against a stopped daemon.
CommandOutcomesWhen(up) == IF up THEN CommandOutcomes ELSE {"nonzero", "timeout"}

AdapterTags == { image_tag(cfg) : cfg \in BuildConfigs }

IdleContract ==
    [file |-> "ok", path_exists |-> TRUE, cfg |-> CliConfig,
     network_access |-> FALSE, entry_point |-> "main.py",
     test_directory |-> NoTestDirectory, rules |-> <<>>]

InitAdapter ==
    /\ dockerUp \in BOOLEAN
    /\ images \in SUBSET AdapterTags
    /\ docker_available = "None"
    /\ deps_image = None
    /\ calls = <<>>
    /\ pc = "adapter"
    /\ contract = IdleContract
    /\ artifact_info = NoArtifactInfo
    /\ rule_results = <<>>
    /\ idx = 0
    /\ cur = NoCur
    /\ events = <<>>
    /\ commands = <<>>
    /\ results = NoResults
    /\ written = FALSE
    /\ error = NoError
    /\ exit_code = -1
    /\ PolicyIdle
    /\ BuildsIdle

\* The daemon stops or starts, whatever the adapter is doing.
DaemonChange ==
    /\ dockerUp' = ~dockerUp
    /\ UNCHANGED <<images, adapterVars, cliVars>>
    /\ UNCHANGED policyVars
    /\ UNCHANGED buildVars

\* docker_runner.is_available()
ClientIsAvailable ==
    /\ Len(calls) < MaxCalls
    /\ LET a == is_available(docker_available, dockerUp)
       IN  /\ docker_available' = a.memo
           /\ calls' = Append(calls,
                  Observed(Call("is_available", CliConfig, FALSE, None, FALSE,
                                None, a.result, 0, a.probed),
                           NoExc, 0, "", dockerUp, deps_image, deps_image))
    /\ UNCHANGED <<daemonVars, deps_image, cliVars>>
    /\ UNCHANGED policyVars
    /\ UNCHANGED buildVars

\* docker_runner.check_available()
ClientCheckAvailable ==
    /\ Len(calls) < MaxCalls
    /\ LET a == check_available(docker_available, dockerUp)
       IN  /\ docker_available' = a.memo
           /\ calls' = Append(calls,
                  Observed(Call("check_available", CliConfig, FALSE, None,
                                a.raised, None, ~a.raised, 0, a.probed),
                           a.exc, 0, "", dockerUp, deps_image, deps_image))
    /\ UNCHANGED <<daemonVars, deps_image, cliVars>>
    /\ UNCHANGED policyVars
    /\ UNCHANGED buildVars

\* The keyword arguments a client calls run_command with.
RunArguments ==
    { [project_path |-> ProjectPath, network_access |-> FALSE,
       writable |-> FALSE, environment |-> <<>>],
      [project_path |-> ProjectPath, network_access |-> TRUE,
       writable |-> TRUE, environment |-> SomeEnvironment],
      [project_path |-> None, network_access |-> FALSE,
       writable |-> TRUE, environment |-> SomeEnvironment],
      [project_path |-> ProjectPath, network_access |-> TRUE,
       writable |-> FALSE, environment |-> <<>>] }

ClientCommand == <<"python", "-m", "pytest", "-v">>

\* docker_runner.run_command(image, command, ...) on a built image.
ClientRunCommand ==
    /\ Len(calls) < MaxCalls
    /\ \E outcome \in CommandOutcomesWhen(dockerUp), args \in RunArguments :
        LET a == is_available(docker_available, dockerUp)
            proc == run_command(docker_available, dockerUp,
                                image_tag(CliConfig), outcome)
        IN  /\ docker_available' = a.memo
            /\ commands' =
                 IF proc.launched
                 THEN Append(commands,
                        CommandRecord(0, "", outcome, image_tag(CliConfig),
                                      ClientCommand, args.project_path,
                                      args.network_access, args.writable,
                                      args.environment))
                 ELSE commands
            /\ calls' = Append(calls,
                   Observed(Call("run_command", CliConfig, FALSE,
                                 image_tag(CliConfig), proc.raised, None,
                                 ~proc.raised, 0, a.probed),
                            proc.exc, IF proc.launched THEN 1 ELSE 0,
                            proc.out, dockerUp, deps_image, deps_image))
    /\ UNCHANGED <<daemonVars, deps_image, pc, contract, artifact_info,
                   rule_results, idx, cur, events, results, written, error,
                   exit_code>>
    /\ UNCHANGED policyVars
    /\ UNCHANGED buildVars

\* docker_runner.build_deps_image(cfg..., force_rebuild=force)
ClientBuild ==
    /\ Len(calls) < MaxCalls
    /\ \E cfg \in BuildConfigs, force \in BOOLEAN,
          probe \in InspectOutcomesWhen(dockerUp),
          outcome \in BuildOutcomesWhen(dockerUp) :
        LET b == build_deps_image(docker_available, deps_image, dockerUp,
                                  images, cfg, force, probe, outcome)
        IN  /\ docker_available' = b.memo
            /\ deps_image' = b.deps
            /\ images' = b.images
            /\ calls' = Append(calls, BuildCall(cfg, force, b))
    /\ UNCHANGED <<dockerUp, cliVars>>
    /\ UNCHANGED policyVars
    /\ UNCHANGED buildVars

\* docker_runner.cleanup_image(tag)
ClientCleanup ==
    /\ Len(calls) < MaxCalls
    /\ \E tag \in AdapterTags :
        LET r == cleanup_image(images, tag)
        IN  /\ images' = r.images
            /\ calls' = Append(calls,
                   Observed(Call("cleanup_image", CliConfig, FALSE, tag, FALSE,
                                 None, r.value, 0, FALSE),
                            NoExc, 0, "", dockerUp, deps_image, deps_image))
    /\ UNCHANGED <<dockerUp, docker_available, deps_image, cliVars>>
    /\ UNCHANGED policyVars
    /\ UNCHANGED buildVars

NextAdapter ==
    \/ DaemonChange
    \/ ClientIsAvailable
    \/ ClientCheckAvailable
    \/ ClientBuild
    \/ ClientRunCommand
    \/ ClientCleanup

SpecAdapter == InitAdapter /\ [][NextAdapter]_vars

\* =====================================================================
\* SpecPolicy: one execution of the policy rule on a project directory
\* =====================================================================
\* The iteration orders of `hits` that can be told apart under a config:
\* the order shows only when two distributions can be hit at once.
SetOrdersFor(config) ==
    IF Len(config.forbidden_packages) > 1 THEN SetOrders
    ELSE {CHOOSE order \in SetOrders : TRUE}

PolicyInputs ==
    UNION { { [path_exists |-> path_exists, config |-> config,
               pkg_map |-> pkg_map, order |-> order] :
                  path_exists \in BOOLEAN, pkg_map \in PkgMaps,
                  order \in SetOrdersFor(config) } :
            config \in PolicyConfigs }

\* Syntax trees of at most n import and call nodes.
Trees(n) == UNION { [1..k -> AstNodes] : k \in 0..n }

\* A python file: readable and parseable with its tree, or not.
PyFiles(n) ==
    { [status |-> "ok", tree |-> t] : t \in Trees(n) }
        \cup { [status |-> st, tree |-> <<>>] : st \in {"unreadable", "syntax_error"} }

RECURSIVE NodeCount(_)
NodeCount(fs) == IF fs = <<>> THEN 0 ELSE Len(fs[1].tree) + NodeCount(Tail(fs))

InitPolicy ==
    /\ dockerUp = FALSE
    /\ images = {}
    /\ docker_available = "None"
    /\ deps_image = None
    /\ calls = <<>>
    /\ pc = "policy"
    /\ contract = IdleContract
    /\ artifact_info = NoArtifactInfo
    /\ rule_results = <<>>
    /\ idx = 0
    /\ cur = NoCur
    /\ events = <<>>
    /\ commands = <<>>
    /\ results = NoResults
    /\ written = FALSE
    /\ error = NoError
    /\ exit_code = -1
    /\ policy_input \in PolicyInputs
    /\ analysed = <<>>
    /\ violations = <<>>
    /\ used_distributions = {}
    /\ policy_ret = NoPolicyReturn
    /\ BuildsIdle

\* One turn of the loop `for py_file in python_files`: rglob finds files
\* only in a directory that exists.
PolicyAnalyseFile ==
    /\ pc = "policy"
    /\ policy_input.path_exists
    /\ Len(analysed) < MaxFiles
    /\ \E py_file \in PyFiles(MaxNodes - NodeCount(analysed)) :
        LET r == analyse_file(py_file, Len(analysed) + 1, policy_input.config,
                              policy_input.pkg_map, policy_input.order)
        IN  /\ analysed' = Append(analysed, py_file)
            /\ violations' = violations \o r.violations
            /\ used_distributions' = used_distributions \cup r.used
    /\ UNCHANGED <<daemonVars, adapterVars, cliVars, policy_input, policy_ret>>
    /\ UNCHANGED buildVars

\* The loop is over: execute returns.
PolicyReturn ==
    /\ pc = "policy"
    /\ policy_ret' = policy_return(violations, used_distributions, Len(analysed))
    /\ pc' = "policy_done"
    /\ UNCHANGED <<daemonVars, adapterVars, contract, artifact_info,
                   rule_results, idx, cur, events, commands, results, written,
                   error, exit_code, policy_input, analysed, violations,
                   used_distributions>>
    /\ UNCHANGED buildVars

NextPolicy ==
    \/ PolicyAnalyseFile
    \/ PolicyReturn

SpecPolicy == InitPolicy /\ [][NextPolicy]_vars

\* =====================================================================
\* SpecBuilds: several runs, each with its own DockerRunner, call
\* build_deps_image with the same configuration against one image store
\* =====================================================================
\* What a project's requirements.txt holds; <<>> when there is no file.
RequirementsFiles == { <<>>, <<"numpy">> }

\* requirements_content as build_deps_image gathers it: the project's
\* requirements.txt, a newline, the declared packages one per line.
merged_requirements(requirements_txt, python_dependencies) ==
    IF python_dependencies # <<>>
    THEN (IF requirements_txt # <<>> THEN requirements_txt \o <<"\n">> ELSE <<>>)
             \o join("\n", python_dependencies)
    ELSE requirements_txt

\* What docker build makes of the build context: the Dockerfile's base
\* image and system packages, and the requirements file it installs.
build_inputs(cfg, requirements_txt) ==
    [runtime_image |-> cfg.runtime_image,
     system_dependencies |-> cfg.system_dependencies,
     requirements |-> merged_requirements(requirements_txt,
                                          cfg.python_dependencies)]

\* An image of the store: the tag it carries, the build that made it (0:
\* it was there before the runs) and what it was built from.
Image(tag, id, inputs) == [tag |-> tag, id |-> id, inputs |-> inputs]

StoreTags(st) == { img.tag : img \in st }

docker_build_tag_keeps_old(st, tag, id, inputs) ==
    st \cup {Image(tag, id, inputs)}

\* docker build -t tag: the new image takes the tag, the image that carried
\* it loses it.
docker_build_tag(st, tag, id, inputs) ==
    { img \in st : img.tag # tag } \cup {Image(tag, id, inputs)}

\* A run's build_deps_image call: not yet at the cache test ("start"),
\* between the cache test and the end of docker build ("build"), or over
\* ("done") with the reference returned or the exception raised; hit is the
\* image the cache test found.
Run(position, force_rebuild, requirements_txt, raised, value, built, hit) ==
    [pc |-> position, force_rebuild |-> force_rebuild,
     requirements_txt |-> requirements_txt, raised |-> raised,
     value |-> value, built |-> built, hit |-> hit]

NoImage == Image(None, 0, build_inputs(CliConfig, <<>>))

InitBuilds ==
    /\ dockerUp = TRUE
    /\ images = {}
    /\ docker_available = "None"
    /\ deps_image = None
    /\ calls = <<>>
    /\ pc = "builds"
    /\ contract = IdleContract
    /\ artifact_info = NoArtifactInfo
    /\ rule_results = <<>>
    /\ idx = 0
    /\ cur = NoCur
    /\ events = <<>>
    /\ commands = <<>>
    /\ results = NoResults
    /\ written = FALSE
    /\ error = NoError
    /\ exit_code = -1
    /\ PolicyIdle
    /\ runs \in [1..MaxRuns ->
                   { Run("start", force, req, FALSE, None, 0, NoImage) :
                       force \in BOOLEAN, req \in RequirementsFiles }]
    /\ store \in { {},
                   { Image(image_tag(CliConfig), 0,
                           build_inputs(CliConfig, <<>>)) } }

\* build_deps_image up to the cache test: the tag is computed and, unless
\* force_rebuild, _image_exists looks it up in the store.
BuildsCacheTest(r) ==
    /\ runs[r].pc = "start"
    /\ \E probe \in InspectOutcomes :
        LET tag == image_tag(CliConfig)
        IN  IF ~runs[r].force_rebuild /\ image_exists(StoreTags(store), tag, probe)
            THEN runs' = [runs EXCEPT ![r].pc = "done", ![r].value = tag,
                              ![r].hit = CHOOSE img \in store : img.tag = tag]
            ELSE runs' = [runs EXCEPT ![r].pc = "build"]
    /\ UNCHANGED <<daemonVars, adapterVars, cliVars, store>>
    /\ UNCHANGED policyVars

\* build_deps_image from the build context to its return: docker build
\* ends, and tags the image if it succeeded.
BuildsDockerBuild(r) ==
    /\ runs[r].pc = "build"
    /\ \E outcome \in BuildOutcomes :
        LET tag == image_tag(CliConfig)
        IN  IF outcome = "ok"
            THEN /\ store' = docker_build_tag(store, tag, r,
                                 build_inputs(CliConfig, runs[r].requirements_txt))
                 /\ runs' = [runs EXCEPT ![r].pc = "done", ![r].value = tag,
                                         ![r].built = 1]
            ELSE /\ store' = store
                 /\ runs' = [runs EXCEPT ![r].pc = "done", ![r].raised = TRUE,
                                         ![r].built = 1]
    /\ UNCHANGED <<daemonVars, adapterVars, cliVars>>
    /\ UNCHANGED policyVars

NextBuilds ==
    \/ \E r \in 1..MaxRuns : BuildsCacheTest(r)
    \/ \E r \in 1..MaxRuns : BuildsDockerBuild(r)

SpecBuilds == InitBuilds /\ [][NextBuilds]_vars

\* =====================================================================
\* Properties
\* =====================================================================

\* The contract went through the parser and the schema.
ContractValid == parse(contract) = NoExc

Rules == contract.rules

\* Positions of the rules that are explicitly disabled / that are not.
DisabledIdx == { k \in 1..Len(Rules) : Rules[k].enabled = "false" }
EnabledIdx == { k \in 1..Len(Rules) : Rules[k].enabled # "false" }

\* Names of the enabled rules, in the contract's order.
RECURSIVE EnabledNamesOf(_)
EnabledNamesOf(rs) ==
    IF rs = <<>> THEN <<>>
    ELSE (IF rs[1].enabled # "false" THEN <<rs[1].name>> ELSE <<>>)
             \o EnabledNamesOf(Tail(rs))

EnabledNames == EnabledNamesOf(Rules)

NamesOf(rs) == [i \in 1..Len(rs) |-> rs[i].rule_name]

\* Positions in rule_results of the results that carry this rule name.
ResultsFor(name) == { i \in 1..Len(rule_results) : rule_results[i].rule_name = name }

\* The rule at position k has exactly one result, and it is a failure
\* whose message contains pat.
FailedOnceWith(k, pat) ==
    /\ Cardinality(ResultsFor(Rules[k].name)) = 1
    /\ \A i \in ResultsFor(Rules[k].name) :
        /\ ~rule_results[i].passed
        /\ Contains(rule_results[i].message, pat)

HasEvent(kind, k) == \E i \in 1..Len(events) : events[i].kind = kind /\ events[i].rule = k

\* Every enabled rule after position k was dispatched and has its result.
LaterRulesDispatched(k) ==
    \A j \in (k + 1)..Len(Rules) :
        (j \in EnabledIdx) =>
            /\ HasEvent("start", j)
            /\ HasEvent("end", j)
            /\ Cardinality(ResultsFor(Rules[j].name)) = 1

\* The run went through every enabled rule and aggregated them.
AllAggregated ==
    /\ results.present
    /\ results.results = rule_results
    /\ NamesOf(results.results) = EnabledNames
    /\ results.total = Cardinality(EnabledIdx)

\* No exception left _run_rule or to_dict.
NoFaultPastRunner == error.stage \notin {"rule", "aggregate"}

\* ---------------------------------------------------------------------
\* C1: a rule whose config sets enabled: false produces no RuleResult: it
\* is not in rule_results nor in the returned results, it is not counted in
\* the summary's total/passed/failed, and its module is never loaded nor
\* executed (no start, command or end of that rule in the history).
C1_DisabledRuleProducesNothing ==
    \A k \in DisabledIdx :
        /\ ResultsFor(Rules[k].name) = {}
        /\ \A i \in 1..Len(events) : events[i].rule # k
        /\ \A i \in 1..Len(commands) : commands[i].rule # k
        /\ results.present =>
            /\ \A i \in 1..Len(results.results) :
                   results.results[i].rule_name # Rules[k].name
            /\ results.total = Cardinality(EnabledIdx)
            /\ results.passed + results.failed = results.total

\* A finished run that stepped over a disabled rule and ran the rule after it.
C1_Witness ==
    /\ pc = "exited"
    /\ written
    /\ Len(Rules) = 2
    /\ 1 \in DisabledIdx
    /\ 2 \in EnabledIdx
    /\ results.total = 1

\* ---------------------------------------------------------------------
\* C2: an enabled rule whose module cannot be found gets exactly one
\* RuleResult, failed, with "not found" in its message; the run goes on:
\* no exception leaves the runner, every later enabled rule is dispatched
\* and the run reaches aggregation.
C2_MissingRuleFailsAndRunContinues ==
    \A i \in 1..Len(events) :
        (events[i].kind = "start" /\ events[i].tag = "missing") =>
            /\ FailedOnceWith(events[i].rule, <<"not", "found">>)
            /\ NoFaultPastRunner
            /\ pc \in {"dispatch", "in_rule", "ran", "exited"}
            /\ (pc \in {"ran", "exited"}) =>
                   (AllAggregated /\ LaterRulesDispatched(events[i].rule))

\* A finished run whose first rule had no module and whose second rule passed.
C2_Witness ==
    /\ pc = "exited"
    /\ written
    /\ Len(events) >= 2
    /\ events[2].kind = "start" /\ events[2].tag = "missing" /\ events[2].rule = 1
    /\ Len(rule_results) = 2
    /\ rule_results[2].passed

\* ---------------------------------------------------------------------
\* C3: an exception raised while a rule is loaded, constructed or executed
\* becomes one failed RuleResult whose message carries the exception's
\* message; it never leaves EvaluationRunner.run, and the rules declared
\* after it are still dispatched.
C3_RuleExceptionBecomesFailedResult ==
    \A i \in 1..Len(events) :
        (events[i].kind = "end" /\ events[i].exc # NoExc) =>
            /\ FailedOnceWith(events[i].rule, events[i].exc.msg)
            /\ FailedOnceWith(events[i].rule, <<"Rule", "execution", "failed:">>)
            /\ NoFaultPastRunner
            /\ (pc \in {"ran", "exited"}) =>
                   (AllAggregated /\ LaterRulesDispatched(events[i].rule))

\* A finished run whose first rule raised in execute and whose second rule
\* raised while its module was imported; both have their failed result.
C3_Witness ==
    /\ pc = "exited"
    /\ written
    /\ Len(rule_results) = 2
    /\ \E i, j \in 1..Len(events) :
        /\ events[i].kind = "end" /\ events[i].rule = 1
        /\ events[i].exc.type = "RuntimeError"
        /\ events[j].kind = "end" /\ events[j].rule = 2
        /\ events[j].exc.type = "SyntaxError"

\* ---------------------------------------------------------------------
\* C4: a contract with no enabled rule (no rules, or all disabled) runs to
\* completion with total = passed = failed = 0 and success_rate = 0.0, and
\* no division fault.
C4_ZeroRulesSummary ==
    (ContractValid /\ contract.path_exists /\ EnabledIdx = {}) =>
        /\ NoFaultPastRunner
        /\ rule_results = <<>>
        /\ (pc \in {"ran", "exited"}) =>
            /\ results.present
            /\ results.fault = ""
            /\ results.total = 0
            /\ results.passed = 0
            /\ results.failed = 0
            /\ results.success_rate = 0
        /\ (pc = "exited" /\ written) => exit_code = 0

\* A finished run of a contract whose rules are all disabled.
C4_Witness ==
    /\ pc = "exited"
    /\ written
    /\ Len(Rules) = 2
    /\ EnabledIdx = {}
    /\ results.present
    /\ results.total = 0

\* ---------------------------------------------------------------------
\* C5: enabled rules are executed one after another in the contract's
\* order: a rule starts only after the rule before it has ended, every
\* container command lies between its rule's start and end, and the results
\* are listed in the order of the rules.
RuleEvents == SelectSeq(events, LAMBDA e : e.kind # "build")

C5_RulesRunInDeclaredOrder ==
    /\ LET evs == RuleEvents
       IN  \A i \in 1..Len(evs) :
            /\ (evs[i].kind = "start") =>
                /\ evs[i].rule \in EnabledIdx
                /\ (i > 1) => /\ evs[i - 1].kind = "end"
                              /\ evs[i - 1].rule < evs[i].rule
            /\ (evs[i].kind \in {"cmd", "end"}) =>
                /\ i > 1
                /\ evs[i - 1].kind \in {"start", "cmd"}
                /\ evs[i - 1].rule = evs[i].rule
    /\ Len(rule_results) <= Len(EnabledNames)
    /\ NamesOf(rule_results) = SubSeq(EnabledNames, 1, Len(rule_results))
    /\ results.present => NamesOf(results.results) = EnabledNames

\* A finished run of two enabled rules that each ran a container command.
C5_Witness ==
    /\ pc = "exited"
    /\ written
    /\ EnabledIdx = {1, 2}
    /\ results.total = 2
    /\ \E i, j \in 1..Len(events) :
        /\ events[i].kind = "cmd" /\ events[i].rule = 1
        /\ events[j].kind = "cmd" /\ events[j].rule = 2

\* ---------------------------------------------------------------------
\* C6: when the image build fails (runtime unavailable, non-zero build
\* exit, build timeout) the run is not aborted: artifact_info has no
\* deps_image and the contract's other settings, and every enabled rule is
\* dispatched and aggregated.
C6_BuildFailureIsNotFatal ==
    \A i \in 1..Len(events) :
        (events[i].kind = "build" /\ events[i].exc # NoExc) =>
            /\ events[i].exc.type \in {"RuntimeError", "TimeoutExpired"}
            /\ error.stage # "prepare"
            /\ NoFaultPastRunner
            /\ artifact_info.present
            /\ artifact_info.deps_image = None
            /\ artifact_info.runtime_image = contract.cfg.runtime_image
            /\ artifact_info.network_access = contract.network_access
            /\ artifact_info.system_dependencies = contract.cfg.system_dependencies
            /\ artifact_info.python_dependencies = contract.cfg.python_dependencies
            /\ artifact_info.entry_point = contract.entry_point
            /\ (pc \in {"ran", "exited"}) => (AllAggregated /\ LaterRulesDispatched(0))

\* A finished run whose build timed out and whose two rules were run.
C6_Witness ==
    /\ pc = "exited"
    /\ written
    /\ Len(events) >= 1
    /\ events[1].kind = "build"
    /\ events[1].exc.type = "TimeoutExpired"
    /\ contract.network_access
    /\ EnabledIdx = {1, 2}
    /\ results.total = 2

\* ---------------------------------------------------------------------
\* C7: when the project path does not exist the run aborts with the error
\* of _prepare_environment before the build is attempted and before any
\* rule is dispatched, and no EvaluationResult is produced; a run that
\* produces no EvaluationResult was aborted by this or by a configuration
\* error.
C7_MissingPathAborts ==
    /\ (ContractValid /\ ~contract.path_exists /\ pc \notin {"start", "loaded"}) =>
        /\ pc = "exited"
        /\ exit_code = 1
        /\ error.stage = "prepare"
        /\ error.type = "ValueError"
        /\ events = <<>>
        /\ calls = <<>>
        /\ docker_available = "None"
        /\ rule_results = <<>>
        /\ ~results.present
        /\ ~written
    /\ (pc = "exited" /\ ~results.present) =>
        \/ (~ContractValid /\ error.stage = "load")
        \/ (~contract.path_exists /\ error.stage = "prepare")

\* The run of a valid contract with an enabled rule, a running daemon and a
\* missing project path has ended.
C7_Witness ==
    /\ pc = "exited"
    /\ ContractValid
    /\ ~contract.path_exists
    /\ dockerUp
    /\ EnabledIdx # {}
    /\ error.stage = "prepare"

\* ---------------------------------------------------------------------
\* C8: two build_deps_image calls in a row with identical configuration
\* and force_rebuild = false that both return give the same image
\* reference, and start docker build at most once between them.
C8_BuildCacheIdempotent ==
    \A k \in 1..(Len(calls) - 1) :
        ( /\ calls[k].op = "build_deps_image"
          /\ calls[k + 1].op = "build_deps_image"
          /\ calls[k].cfg = calls[k + 1].cfg
          /\ ~calls[k].force /\ ~calls[k + 1].force
          /\ ~calls[k].raised /\ ~calls[k + 1].raised ) =>
            /\ calls[k].value = calls[k + 1].value
            /\ calls[k].value # None
            /\ calls[k].built + calls[k + 1].built <= 1

\* ---------------------------------------------------------------------
\* C9: run_contract returns 0 exactly when the run went to its end (the
\* rules were aggregated and the result document written) and no enabled
\* rule failed, the zero-rule case included; it returns 1 when a rule
\* failed or the run aborted; the results that decide it are those of
\* enabled rules only.
FailedResults == { i \in 1..Len(rule_results) : ~rule_results[i].passed }

C9_ExitCode ==
    /\ (pc # "exited") <=> (exit_code = -1)
    /\ (pc = "exited") =>
        /\ exit_code \in {0, 1}
        /\ (exit_code = 0) <=> (AllAggregated /\ written /\ FailedResults = {})
        /\ (FailedResults # {}) => exit_code = 1
        /\ (error.stage # "") => exit_code = 1
        /\ (~ContractValid \/ ~contract.path_exists) => exit_code = 1
        /\ \A i \in 1..Len(rule_results) :
               \E k \in EnabledIdx : Rules[k].name = rule_results[i].rule_name

\* A run that returned 0 with a disabled rule and a passed rule.
C9_Witness ==
    /\ pc = "exited"
    /\ exit_code = 0
    /\ DisabledIdx # {}
    /\ results.total = 1
    /\ results.passed = 1

\* ---------------------------------------------------------------------
\* C10: when a container command of a rule times out, the rule's one
\* RuleResult is a failure whose message contains "timed out"; the run
\* still aggregates every enabled rule and returns non-zero, and nothing
\* is raised past the runner.
C10_TimeoutFailsTheRule ==
    \A i \in 1..Len(commands) :
        (commands[i].outcome = "timeout") =>
            /\ module_name(Rules[commands[i].rule].name) \in
                   {"build_imports", "unit_tests", "security_sast", "security_deps"}
            /\ FailedOnceWith(commands[i].rule, <<"timed", "out">>)
            /\ NoFaultPastRunner
            /\ (pc \in {"ran", "exited"}) => AllAggregated
            /\ (pc = "exited") => exit_code = 1

\* A finished run in which the commands of two rules timed out.
C10_Witness ==
    /\ pc = "exited"
    /\ written
    /\ results.total = 2
    /\ \E i, j \in 1..Len(commands) :
        /\ commands[i].rule = 1 /\ commands[i].outcome = "timeout"
        /\ commands[j].rule = 2 /\ commands[j].outcome = "timeout"

\* ---------------------------------------------------------------------
\* Calls of run_command that started a container.
LaunchedCommands ==
    { k \in 1..Len(calls) : calls[k].op = "run_command" /\ calls[k].ran = 1 }

\* C11 as stated: run_command raises for no command it started; a non-zero
\* exit and a timeout both come back as values.
C11_CommandFailuresAreData ==
    \A k \in LaunchedCommands : ~calls[k].raised

\* C11, amended: a command that exits, with status 0 or not, comes back
\* from run_command as a value and no exception is raised; a command that
\* outlives the timeout comes back as the exception subprocess.TimeoutExpired
\* raised by run_command, and as nothing else.
C11_ExitIsDataTimeoutIsRaised ==
    \A k \in LaunchedCommands :
        /\ calls[k].raised <=> (calls[k].exc.type = "TimeoutExpired")
        /\ calls[k].raised <=> (calls[k].result = "")
        /\ ~calls[k].raised =>
            /\ calls[k].result \in {"ok", "nonzero"}
            /\ calls[k].exc = NoExc

\* A non-zero exit was returned and a timeout was raised.
C11_Witness ==
    /\ Len(calls) = 2
    /\ calls[1].op = "run_command" /\ calls[1].ran = 1
    /\ ~calls[1].raised /\ calls[1].result = "nonzero"
    /\ calls[2].op = "run_command" /\ calls[2].ran = 1
    /\ calls[2].raised /\ calls[2].exc.type = "TimeoutExpired"

\* ---------------------------------------------------------------------
ContainerRules == {"build_imports", "unit_tests", "security_sast", "security_deps"}

\* Positions of the container rules whose execute was entered (the module
\* was loaded and the rule constructed) and has returned.
ExecutedContainerRules ==
    { k \in 1..Len(Rules) :
        /\ Rules[k].name \in ContainerRules
        /\ \E i \in 1..Len(events) :
               events[i].kind = "start" /\ events[i].rule = k /\ events[i].tag = "ok"
        /\ HasEvent("end", k) }

\* C12: a container rule executed with an artifact_info that has no
\* deps_image returns passed = false with a message saying that Docker /
\* the deps image is not available, and starts no container command.
C12_NoImageNoContainer ==
    (artifact_info.present /\ artifact_info.deps_image = None) =>
        \A k \in ExecutedContainerRules :
            /\ FailedOnceWith(k, <<"not", "available">>)
            /\ \A i \in 1..Len(commands) : commands[i].rule # k

\* ---------------------------------------------------------------------
\* C13: the policy rule executed on a project path that does not exist
\* returns passed = false with a "path not found" message of its own, before
\* any file is analysed.
C13_PolicyMissingPathFails ==
    (policy_ret.returned /\ ~policy_input.path_exists) =>
        /\ ~policy_ret.passed
        /\ Contains(policy_ret.message, <<"not", "found">>)
        /\ analysed = <<>>

\* ---------------------------------------------------------------------
\* Property helpers for the policy analyzer.
Distributions == {"PyYAML", "yaml-stub", "Something"}

\* The import statements' module names in the files analysed so far: file
\* f, node k, name j of that node.
ImportOccurrences ==
    { occ \in (1..MaxFiles) \X (1..(MaxNodes + 1)) \X (1..2) :
        /\ occ[1] <= Len(analysed)
        /\ analysed[occ[1]].status = "ok"
        /\ occ[2] <= Len(analysed[occ[1]].tree)
        /\ LET node == analysed[occ[1]].tree[occ[2]]
           IN  \/ node.type = "Import" /\ occ[3] <= Len(node.names)
               \/ node.type = "ImportFrom" /\ node.module # NoModule
                                           /\ occ[3] = 1 }

OccNode(occ) == analysed[occ[1]].tree[occ[2]]

OccName(occ) ==
    IF OccNode(occ).type = "Import" THEN OccNode(occ).names[occ[3]]
    ELSE OccNode(occ).module

\* The distributions that provide the top-level module of an import.
OccCandidates(occ) ==
    LET top == OccName(occ)[1]
    IN  IF top \in DOMAIN policy_input.pkg_map
        THEN { policy_input.pkg_map[top][i] :
                   i \in 1..Len(policy_input.pkg_map[top]) }
        ELSE {}

ForbiddenPackages ==
    { policy_input.config.forbidden_packages[i] :
          i \in 1..Len(policy_input.config.forbidden_packages) }

ViolationsWhere(P(_)) == { i \in 1..Len(violations) : P(violations[i]) }

ForbiddenModuleImports ==
    { occ \in ImportOccurrences :
        \E i \in 1..Len(policy_input.config.forbidden_modules) :
            LET m == policy_input.config.forbidden_modules[i]
            IN  m = OccName(occ)[1] }

\* C15: an import whose module name is in forbidden_modules yields a
\* violation of a forbidden-module kind of its own, whether or not one of
\* its distributions is forbidden.
C15_ForbiddenModulesAreReported ==
    \A occ \in ForbiddenModuleImports :
        \E i \in 1..Len(violations) :
            /\ violations[i].type \notin {"forbidden_package", "forbidden_api"}
            /\ violations[i].file = occ[1]
            /\ violations[i].line = OccNode(occ).lineno

\* ---------------------------------------------------------------------
\* The call expressions in the files analysed so far (file f, node k) whose
\* callee is a name or a chain of attribute accesses rooted at a name.
NameRootedCalls ==
    { c \in (1..MaxFiles) \X (1..(MaxNodes + 1)) :
        /\ c[1] <= Len(analysed)
        /\ analysed[c[1]].status = "ok"
        /\ c[2] <= Len(analysed[c[1]].tree)
        /\ analysed[c[1]].tree[c[2]].type = "Call"
        /\ analysed[c[1]].tree[c[2]].func.root = "Name" }

CallNode(c) == analysed[c[1]].tree[c[2]]

\* a.b.c for the callee a, then .b, then .c
QualifiedName(func) == <<func.id>> \o func.attrs

ForbiddenApis ==
    { policy_input.config.forbidden_apis[i] :
          i \in 1..Len(policy_input.config.forbidden_apis) }

\* C16: each call of a name or of an attribute chain rooted at a name is
\* reported exactly once, with its line number and its dot-joined qualified
\* name, when that name is in the forbidden-API list, and not at all
\* otherwise.
C16_ForbiddenApiCallsAreReported ==
    policy_ret.returned =>
    LET rooted == NameRootedCalls
        forbidden == ForbiddenApis
        Reports(f, line, name) ==
            ViolationsWhere(LAMBDA v : /\ v.type = "forbidden_api"
                                       /\ v.file = f
                                       /\ v.line = line
                                       /\ v.api = name)
    IN  /\ \A c \in rooted :
             get_call_name(CallNode(c).func) = QualifiedName(CallNode(c).func)
        /\ \A c \in rooted :
             LET name == QualifiedName(CallNode(c).func)
                 line == CallNode(c).lineno
             IN  Cardinality(Reports(c[1], line, name))
                   = IF name \in forbidden
                     THEN Cardinality({ o \in rooted :
                                          /\ o[1] = c[1]
                                          /\ CallNode(o).lineno = line
                                          /\ QualifiedName(CallNode(o).func) = name })
                     ELSE 0
        /\ \A i \in 1..Len(violations) :
             violations[i].type = "forbidden_api" =>
                 /\ violations[i].api \in forbidden
                 /\ \E c \in rooted :
                      /\ c[1] = violations[i].file
                      /\ CallNode(c).lineno = violations[i].line
                      /\ QualifiedName(CallNode(c).func) = violations[i].api

\* os.system(...) on line 8 with os.system forbidden, next to a call of
\* os.path.join that is not.
C16_Witness ==
    /\ policy_ret.returned
    /\ <<"os", "system">> \in ForbiddenApis
    /\ \E c \in NameRootedCalls :
         CallNode(c).func = NameExpr("os", <<"system">>)
    /\ \E c \in NameRootedCalls :
         CallNode(c).func = NameExpr("os", <<"path", "join">>)
    /\ violations = <<ApiViolation(1, 8, <<"os", "system">>)>>

\* ---------------------------------------------------------------------
\* Every violation of every file analysed, file by file.
RECURSIVE FoundUpTo(_)
FoundUpTo(f) ==
    IF f = 0 THEN <<>>
    ELSE FoundUpTo(f - 1)
             \o analyse_file(analysed[f], f, policy_input.config,
                             policy_input.pkg_map, policy_input.order).violations

SkippedFiles == { f \in 1..Len(analysed) : analysed[f].status # "ok" }

ParsedFiles == { f \in 1..Len(analysed) : analysed[f].status = "ok" }

\* What the parsed files alone contribute, file by file.
RECURSIVE FoundInParsedUpTo(_)
FoundInParsedUpTo(f) ==
    IF f = 0 THEN <<>>
    ELSE FoundInParsedUpTo(f - 1)
             \o (IF f \in ParsedFiles
                 THEN check_imports(analysed[f].tree, f,
                                    forbidden_package_set(policy_input.config),
                                    policy_input.pkg_map,
                                    policy_input.order).violations
                      \o check_api_calls(analysed[f].tree, f,
                                         policy_input.config.forbidden_apis)
                 ELSE <<>>)

\* C18: a file that cannot be read or parsed adds no violation and no used
\* distribution and does not fail the rule, and the files around it are
\* analysed as if it were not there.
C18_UnparsableFilesAreSkipped ==
    policy_ret.returned =>
    LET found == FoundInParsedUpTo(Len(analysed))
    IN  /\ \A i \in 1..Len(violations) : violations[i].file \notin SkippedFiles
        /\ violations = found
        /\ used_distributions =
               UNION { check_imports(analysed[f].tree, f,
                                     forbidden_package_set(policy_input.config),
                                     policy_input.pkg_map,
                                     policy_input.order).used :
                       f \in ParsedFiles }
        /\ policy_ret.passed <=> (found = <<>>)

\* A file with a syntax error, then a file with a forbidden import.
C18_Witness ==
    /\ policy_ret.returned
    /\ Len(analysed) = 2
    /\ analysed[1].status = "syntax_error"
    /\ analysed[2].status = "ok"
    /\ Len(policy_ret.details.violations) = 1
    /\ policy_ret.details.violations[1].file = 2
    /\ policy_ret.details.used_distributions # <<>>

\* ---------------------------------------------------------------------
\* The calls that probed the container runtime with `docker info`.
ProbingCalls == { i \in 1..Len(calls) : calls[i].probed }

AvailabilityOps == {"is_available", "check_available"}

\* C19: one DockerRunner probes the container runtime at most once, and
\* every is_available or check_available call after the probe gives the
\* probe's answer without probing, whatever the runtime's state is by then.
C19_AvailabilityIsMemoized ==
    /\ Cardinality(ProbingCalls) <= 1
    /\ \A p \in ProbingCalls : \A j \in 1..Len(calls) :
         (j > p /\ calls[j].op \in AvailabilityOps) =>
             /\ ~calls[j].probed
             /\ calls[j].answer = calls[p].up
             /\ calls[j].raised =
                    (calls[j].op = "check_available" /\ ~calls[p].up)
    /\ \A j \in 1..Len(calls) :
         calls[j].op \in AvailabilityOps => \E p \in ProbingCalls : p <= j

\* The runtime stopped after the probe, and check_available still accepts.
C19_Witness ==
    /\ Len(calls) = 2
    /\ calls[1].op = "is_available"
    /\ calls[1].probed
    /\ calls[1].answer
    /\ calls[2].op = "check_available"
    /\ ~calls[2].up
    /\ ~calls[2].probed
    /\ ~calls[2].raised

\* ---------------------------------------------------------------------
ContainerOps == {"build_deps_image", "run_command"}

FailedFast(call) ==
    /\ call.raised
    /\ call.exc = Exc("RuntimeError", DockerUnavailableMsg)
    /\ call.built = 0
    /\ call.ran = 0
    /\ call.after = call.before

\* C20 as stated: a build_deps_image or run_command call made while the
\* container runtime is down raises RuntimeError before any docker build or
\* docker run subprocess is started and leaves the recorded deps image as
\* it was.
C20_RuntimeDownFailsFast ==
    \A i \in 1..Len(calls) :
        (calls[i].op \in ContainerOps /\ ~calls[i].up) => FailedFast(calls[i])

\* The call at which the adapter's availability check answers False: the
\* probe, made by this call or an earlier one, found the runtime down.
CheckAnswersUnavailable(i) ==
    \E p \in ProbingCalls : p <= i /\ ~calls[p].up

\* C20, amended: a build_deps_image or run_command call at which the
\* adapter's (memoized) availability check answers unavailable raises
\* RuntimeError before any docker build or docker run subprocess is started
\* and leaves the recorded deps image as it was.
C20_UnavailableCheckFailsFast ==
    \A i \in 1..Len(calls) :
        (calls[i].op \in ContainerOps /\ CheckAnswersUnavailable(i))
            => FailedFast(calls[i])

\* A build that finds the runtime down, then a run_command after the
\* runtime has come up.
C20_Witness ==
    /\ Len(calls) = 2
    /\ calls[1].op = "build_deps_image"
    /\ calls[1].probed
    /\ ~calls[1].up
    /\ FailedFast(calls[1])
    /\ calls[2].op = "run_command"
    /\ calls[2].up
    /\ FailedFast(calls[2])

\* ---------------------------------------------------------------------
\* The options of a docker run argument list: what stands between
\* `docker run` and the image.
ImageAt(c) == Len(c.cmd) - Len(c.command) - Len(c.image) + 1

OptionsOf(c) == SubSeq(c.cmd, 3, ImageAt(c) - 1)

VolumeOption(c) ==
    <<"-v">> \o c.project_path
        \o <<":", WORKSPACE_PATH, ":", IF c.writable THEN "rw" ELSE "ro">>

\* C21: every container started by run_command is started with
\* `docker run --rm`, with --network=none among the options unless
\* network_access is true, with the project path mounted on the workspace
\* path, read-only unless writable is asked for, and with the image and then
\* the command as the last arguments, after every option.
C21_ContainersAreIsolated ==
    \A i \in 1..Len(commands) :
        LET c == commands[i]
        IN  /\ Len(c.cmd) >= 3 + Len(c.image) + Len(c.command)
            /\ SubSeq(c.cmd, 1, 3) = <<"docker", "run", "--rm">>
            /\ SubSeq(c.cmd, ImageAt(c), Len(c.cmd)) = c.image \o c.command
            /\ Contains(OptionsOf(c), <<"--network=none">>) <=> ~c.network_access
            /\ (c.project_path # None) => Contains(OptionsOf(c), VolumeOption(c))
            /\ ~c.writable => ~Contains(OptionsOf(c), <<"rw">>)
            /\ Contains(OptionsOf(c), <<"-v">>) <=> (c.project_path # None)

\* One container with the network and a writable mount, one with neither.
C21_Witness ==
    /\ Len(commands) = 2
    /\ commands[1].network_access /\ commands[1].writable
    /\ commands[1].environment # <<>>
    /\ commands[1].project_path # None
    /\ ~commands[2].network_access /\ ~commands[2].writable
    /\ commands[2].project_path # None

\* ---------------------------------------------------------------------
\* The call that this step adds to the history is a build_deps_image call
\* that got past the availability check.
BuildStep ==
    /\ Len(calls') = Len(calls) + 1
    /\ calls'[Len(calls')].op = "build_deps_image"
    /\ calls'[Len(calls')].exc # Exc("RuntimeError", DockerUnavailableMsg)

\* C22: with force_rebuild the docker build is run exactly once, whether or
\* not the image store already holds the tag, and a successful call returns
\* the tag and records it as the deps image; a call returns a tag without
\* building only when force_rebuild is false and the store holds the tag.
C22_ForceRebuildBuildsOnce ==
    [][BuildStep =>
         LET c == calls'[Len(calls')]
         IN  /\ c.force => c.built = 1
             /\ (c.force /\ ~c.raised) =>
                    /\ c.value = c.tag
                    /\ deps_image' = c.tag
                    /\ c.tag \in images'
             /\ (~c.raised /\ c.built = 0) =>
                    /\ ~c.force
                    /\ c.tag \in images
                    /\ c.value = c.tag
             /\ c.built <= 1]_vars

\* A build that fills the store, then a forced build of the same tag that
\* runs docker build again and returns the tag.
C22_Witness ==
    /\ Len(calls) = 2
    /\ calls[1].op = "build_deps_image" /\ ~calls[1].raised
    /\ calls[2].op = "build_deps_image" /\ calls[2].force
    /\ calls[2].tag = calls[1].tag
    /\ calls[2].built = 1
    /\ ~calls[2].raised
    /\ calls[2].value = calls[2].tag
    /\ deps_image = calls[2].tag

\* ---------------------------------------------------------------------
\* C23: a contract file that is missing, is not YAML, is empty, lacks a
\* required field, has a field of the wrong type or a rule without a boolean
\* `enabled` aborts the run command before anything is executed: no image
\* build, no rule, no result document, and a non-zero exit code.
C23_ConfigurationErrorAborts ==
    (contract.file # "ok") =>
        /\ pc \in {"start", "exited"}
        /\ calls = <<>>
        /\ events = <<>>
        /\ commands = <<>>
        /\ rule_results = <<>>
        /\ ~results.present
        /\ ~written
        /\ (pc = "exited") => (exit_code # 0 /\ error.stage = "load")

\* ---------------------------------------------------------------------
EventsOf(kind, k) == { i \in 1..Len(events) : events[i].kind = kind /\ events[i].rule = k }

BuildCalls == { i \in 1..Len(calls) : calls[i].op = "build_deps_image" }

\* C24: nothing is retried within one run: build_deps_image is called at
\* most once and starts at most one docker build, each enabled rule is
\* started and ended at most once (exactly once in a run that completes),
\* runs each of its container commands at most once and has at most one
\* result, whatever failed.
C24_NoRetries ==
    /\ Cardinality(BuildCalls) <= 1
    /\ \A i \in BuildCalls : calls[i].built <= 1
    /\ Cardinality(EventsOf("build", 0)) <= 1
    /\ \A k \in 1..Len(Rules) :
         LET starts == Cardinality(EventsOf("start", k))
             ends == Cardinality(EventsOf("end", k))
             given == Cardinality(ResultsFor(Rules[k].name))
         IN  /\ starts <= 1
             /\ ends <= 1
             /\ given <= 1
             /\ (results.present /\ k \in EnabledIdx) =>
                    (starts = 1 /\ ends = 1 /\ given = 1)
    /\ \A i, j \in 1..Len(commands) :
         (commands[i].rule = commands[j].rule
            /\ commands[i].phase = commands[j].phase) => i = j

\* A finished run whose build failed and whose two rules failed.
C24_Witness ==
    /\ pc = "exited"
    /\ written
    /\ Cardinality(BuildCalls) = 1
    /\ \E i \in BuildCalls : calls[i].raised /\ calls[i].built = 1
    /\ Len(rule_results) = 2
    /\ ~rule_results[1].passed
    /\ ~rule_results[2].passed
    /\ EnabledIdx = {1, 2}

\* ---------------------------------------------------------------------
\* The runs whose build_deps_image call returned an image reference.
CompletedRuns == { r \in 1..Len(runs) : runs[r].pc = "done" /\ ~runs[r].raised }

ImagesUnder(tag) == { img \in store : img.tag = tag }

CacheHits == { r \in CompletedRuns : runs[r].built = 0 }

\* C29: the image a cache hit returns was built from what the request
\* would build from: the base image, the system packages and the merged
\* requirements (the project's requirements.txt and the declared packages).
C29_CacheHitMatchesRequest ==
    \A r \in CacheHits :
        /\ runs[r].hit.tag = runs[r].value
        /\ runs[r].hit.inputs = build_inputs(CliConfig, runs[r].requirements_txt)

\* ---------------------------------------------------------------------
\* The build_imports rule went through its compilation phase with success.
CompiledAt(k) ==
    \E i \in 1..Len(commands) :
        /\ commands[i].rule = k
        /\ commands[i].phase = "compile"
        /\ commands[i].outcome = "ok"

\* C26: with an empty entry point, build_imports runs no import command in
\* the container after a successful compilation, and the rule passes.
C26_EmptyEntryPointSkipsImport ==
    (contract.entry_point = "") =>
        \A k \in 1..Len(Rules) :
            (Rules[k].name = "build_imports" /\ CompiledAt(k)) =>
                /\ \A i \in 1..Len(commands) :
                       ~(commands[i].rule = k /\ commands[i].phase = "import")
                /\ cur.phase # "import"
                /\ \A i \in ResultsFor("build_imports") : rule_results[i].passed

\* ---------------------------------------------------------------------
\* Positions in the returned results of the results that carry this name.
ReturnedFor(name) ==
    { i \in 1..Len(results.results) : results.results[i].rule_name = name }

\* C27: the results a completed run returns hold exactly one RuleResult for
\* each rule that is not disabled and none for any other, and the summary
\* has total = number of results = passed + failed, with passed the number
\* of results that passed.
C27_OneResultPerEnabledRule ==
    results.present =>
        /\ \A k \in EnabledIdx : Cardinality(ReturnedFor(Rules[k].name)) = 1
        /\ \A i \in 1..Len(results.results) :
             \E k \in EnabledIdx : Rules[k].name = results.results[i].rule_name
        /\ results.total = Len(results.results)
        /\ results.total = Cardinality(EnabledIdx)
        /\ results.total = results.passed + results.failed
        /\ results.passed =
               Cardinality({ i \in 1..Len(results.results) :
                               results.results[i].passed })
        /\ results.failed =
               Cardinality({ i \in 1..Len(results.results) :
                               ~results.results[i].passed })

\* A completed run of one rule that passed and one that failed.
C27_Witness ==
    /\ results.present
    /\ pc = "exited"
    /\ EnabledIdx = {1, 2}
    /\ results.total = 2
    /\ results.passed = 1
    /\ results.failed = 1
    /\ results.results[1].passed
    /\ ~results.results[2].passed

\* ---------------------------------------------------------------------
\* C28: in a run whose contract sets Environment.network_access to false,
\* every container command of every rule is started with networking
\* disabled: run_command is called with network_access false and the
\* container gets --network=none.
C28_NoNetworkMeansNoNetwork ==
    (~contract.network_access) =>
        \A i \in 1..Len(commands) :
            /\ ~commands[i].network_access
            /\ Contains(commands[i].cmd, <<"--network=none">>)


\* The pytest commands of the run.
PytestCommands == { k \in DOMAIN commands : commands[k].phase = "pytest" }

\* The contract gives a relative test directory other than the project root.
RelativeTestDirectory ==
    /\ contract.test_directory.given
    /\ contract.test_directory.value # <<>>
    /\ ~is_absolute(contract.test_directory.value)

\* C30: when the contract's unit_tests.test_directory is a relative
\* directory D of the project, the unit_tests rule searches <project>/D for
\* test files and runs pytest on /workspace/D, not on the project root.
C30_RelativeTestDirectoryIsHonoured ==
    RelativeTestDirectory =>
        \A k \in PytestCommands :
            LET D == contract.test_directory.value
            IN  /\ test_dir(commands[k].project_path, unit_tests_dir_rel(contract))
                     = ProjectPath \o D
                /\ commands[k].command
                     = <<"python", "-m", "pytest", WORKSPACE_PATH>> \o D
                         \o <<"-v", "--tb=short", "--cov=", WORKSPACE_PATH,
                              "--cov-report=term">>

====
